---- MODULE Spec2Model ----
(***************************************************************************)
(* A model of lyncs/tunable.py: the Tunable container, its option          *)
(* classes and the tune protocol (Spec), the reads of option names         *)
(* (SpecRead), the Delayed graph with the compute and visualize of         *)
(* lyncs/field.py (SpecGraph), the functions on their own (SpecCall), and  *)
(* the Field of lyncs/field.py with the indeces and the shape of           *)
(* lyncs/field/base.py (SpecField), and the attributes of a Field:         *)
(* lattice, field_type, dtype, coords and labels (SpecAttrs).              *)
(*                                                                         *)
(* Python values are encoded as records with a uniform set of fields       *)
(* (tag, s, l, d) so that any two values can be compared.  A Python dict   *)
(* is an insertion-ordered sequence of <<key, value>> pairs with pairwise  *)
(* distinct keys, as in CPython >= 3.7.                                    *)
(***************************************************************************)
EXTENDS Integers, Sequences, FiniteSets, TLC

\* ------------------------------------------------------------------ bounds
\* deepest nesting of tune(key) calls that are in progress at the same time
MaxDepth == 2

\* the option names the callers use: the two options every Field registers
Keys == {"axes_order", "chunks"}

\* ------------------------------------------------------- ordered dicts
DictKeys(d) == {d[i][1] : i \in 1..Len(d)}
DictHas(d, k) == \E i \in 1..Len(d) : d[i][1] = k
DictGet(d, k) == d[CHOOSE i \in 1..Len(d) : d[i][1] = k][2]
DictDel(d, k) == SelectSeq(d, LAMBDA p : p[1] # k)
DictSet(d, k, v) ==
    IF DictHas(d, k)
    THEN [i \in 1..Len(d) |-> IF d[i][1] = k THEN <<k, v>> ELSE d[i]]
    ELSE Append(d, <<k, v>>)
\* Python's == on dicts ignores the insertion order
DictEq(a, b) ==
    /\ DictKeys(a) = DictKeys(b)
    /\ \A k \in DictKeys(a) : DictGet(a, k) = DictGet(b, k)

\* ------------------------------------------------------- Python values
\* tag names the Python type; s holds a str (a one-character label), n an
\* int, l the items of a list (values again), d the items of a dict from
\* labels to ints.
PyNone == [tag |-> "None", s |-> "", n |-> 0, l |-> <<>>, d |-> <<>>]
PyStr(x) == [tag |-> "str", s |-> x, n |-> 0, l |-> <<>>, d |-> <<>>]
PyInt(x) == [tag |-> "int", s |-> "", n |-> x, l |-> <<>>, d |-> <<>>]
PyList(x) == [tag |-> "list", s |-> "", n |-> 0, l |-> x, d |-> <<>>]
PyDict(x) == [tag |-> "dict", s |-> "", n |-> 0, l |-> <<>>, d |-> x]
\* a list of (key, value) tuples, the tuples in d in the order of the list
PyPairs(x) == [tag |-> "pairs", s |-> "", n |-> 0, l |-> <<>>, d |-> x]

Hashable(v) == v.tag \in {"None", "str", "int"}
Sized(v) == v.tag \in {"str", "list", "dict"}

\* value == other
PyEq(a, b) ==
    IF a.tag = "dict" /\ b.tag = "dict" THEN DictEq(a.d, b.d) ELSE a = b

\* len(value): characters of a label, items of a list, keys of a dict
PyLen(v) ==
    CASE v.tag = "list" -> Len(v.l)
      [] v.tag = "dict" -> Len(v.d)
      [] OTHER -> 1

\* a % b with Python's sign convention (the result has the sign of b), b # 0
PyMod(a, b) == IF b > 0 THEN a % b ELSE 0 - ((0 - a) % (0 - b))

\* collections.Counter(value): the elements counted, and the count of one
CounterOk(v) ==
    /\ Sized(v)
    /\ v.tag = "list" => \A i \in 1..Len(v.l) : Hashable(v.l[i])
CounterKeys(v) ==
    CASE v.tag = "list" -> {v.l[i] : i \in 1..Len(v.l)}
      [] v.tag = "dict" -> {PyStr(k) : k \in DictKeys(v.d)}
      [] OTHER -> {v}
Count(v, e) ==
    CASE v.tag = "list" -> Cardinality({i \in 1..Len(v.l) : v.l[i] = e})
      [] v.tag = "dict" ->
           IF e.tag = "str" /\ DictHas(v.d, e.s) THEN DictGet(v.d, e.s) ELSE 0
      [] OTHER -> IF v = e THEN 1 ELSE 0
\* Counter(a) == Counter(b): elements that are missing count as zero
CounterEq(a, b) ==
    \A e \in CounterKeys(a) \cup CounterKeys(b) : Count(a, e) = Count(b, e)

\* value in container, or the exception the operator raises
PyIn(v, c) ==
    CASE c.tag = "str" -> IF v.tag = "str" THEN (IF v.s = c.s THEN "True" ELSE "False")
                          ELSE "TypeError"
      [] c.tag = "list" ->
           IF \E i \in 1..Len(c.l) : PyEq(v, c.l[i]) THEN "True" ELSE "False"
      [] c.tag = "dict" ->
           IF ~Hashable(v) THEN "TypeError"
           ELSE IF v.tag = "str" /\ DictHas(c.d, v.s) THEN "True" ELSE "False"
      [] OTHER -> "TypeError"

\* ------------------------------------------------------------- options
\* An option is its class and the _value its constructor stored.
Option(cls, value) == [cls |-> cls, value |-> value]

\* TunableOption.get, overridden by Choice.get
get(self) == IF self.cls = "Choice" THEN self.value.l[1] ELSE self.value

\* TunableOption.compatible
TunableOption_compatible(self, value) ==
    IF PyEq(value, get(self)) THEN "True" ELSE "False"

\* the elements are compared as sets, without their multiplicities
Permutation_compatible_setwise(self, value) ==
    IF ~Sized(value) THEN "TypeError"
    ELSE IF PyLen(get(self)) # PyLen(value) THEN "False"
    ELSE IF ~CounterOk(get(self)) \/ ~CounterOk(value) THEN "TypeError"
    ELSE IF CounterKeys(get(self)) = CounterKeys(value) THEN "True" ELSE "False"

\* Permutation.compatible
Permutation_compatible(self, value) ==
    IF ~Sized(value) THEN "TypeError"
    ELSE IF PyLen(get(self)) # PyLen(value) THEN "False"
    ELSE IF ~CounterOk(get(self)) \/ ~CounterOk(value) THEN "TypeError"
    ELSE IF CounterEq(get(self), value) THEN "True" ELSE "False"

\* Choice.compatible: the membership test is made on what get() returns
Choice_compatible(self, value) == PyIn(value, get(self))

\* the operands of % are exchanged
RECURSIVE ChunksAll_swapped(_, _, _)
ChunksAll_swapped(shape, chunks, i) ==
    IF i > Len(chunks) THEN "True"
    ELSE LET key == chunks[i][1]
             val == chunks[i][2]
         IN  IF ~DictHas(shape, key) THEN "False"
             ELSE IF ~(val <= DictGet(shape, key)) THEN "False"
             ELSE IF DictGet(shape, key) = 0 THEN "ZeroDivisionError"
             ELSE IF PyMod(val, DictGet(shape, key)) # 0 THEN "False"
             ELSE ChunksAll_swapped(shape, chunks, i + 1)

\* the generator of ChunksOf.compatible, from item i on: all() stops at the
\* first item that is false and raises where an item divides by zero
RECURSIVE ChunksAll(_, _, _)
ChunksAll(shape, chunks, i) ==
    IF i > Len(chunks) THEN "True"
    ELSE LET key == chunks[i][1]
             val == chunks[i][2]
         IN  IF ~DictHas(shape, key) THEN "False"
             ELSE IF ~(val <= DictGet(shape, key)) THEN "False"
             ELSE IF val = 0 THEN "ZeroDivisionError"
             ELSE IF PyMod(DictGet(shape, key), val) # 0 THEN "False"
             ELSE ChunksAll(shape, chunks, i + 1)

\* {key: val for key, val in value}: a key met again keeps its place and
\* takes the later value
RECURSIVE DictOf(_, _)
DictOf(pairs, d) ==
    IF pairs = <<>> THEN d
    ELSE DictOf(Tail(pairs), DictSet(d, Head(pairs)[1], Head(pairs)[2]))

\* ChunksOf.compatible: ChunksOf(value) is built first
ChunksOf_compatible(self, value) ==
    CASE value.tag = "dict" -> ChunksAll(get(self).d, value.d, 1)
      [] value.tag = "pairs" -> ChunksAll(get(self).d, DictOf(value.d, <<>>), 1)
      [] value.tag = "list" ->
           IF Len(value.l) = 0 THEN "True" ELSE "AssertionError"
      [] OTHER -> "UnboundLocalError"

\* option.compatible(value): "True", "False" or the exception raised
compatible(self, value) ==
    CASE self.cls = "Permutation" -> Permutation_compatible(self, value)
      [] self.cls = "Choice" -> Choice_compatible(self, value)
      [] self.cls = "ChunksOf" -> ChunksOf_compatible(self, value)
      [] OTHER -> TunableOption_compatible(self, value)

\* Permutation.__init__(value), Choice.__init__(value) and
\* ChunksOf.__init__(value): "None" or the exception raised.  The items of
\* a list of the model are no tuples (a list of tuples is a PyPairs), so
\* that a list ChunksOf accepts is the empty one.
Permutation_init(value) ==
    IF value.tag = "list" THEN "None" ELSE "AssertionError"
Choice_init(value) ==
    IF value.tag # "list" THEN "AssertionError"
    ELSE IF ~(Len(value.l) > 0) THEN "AssertionError" ELSE "None"
ChunksOf_init(value) ==
    CASE value.tag = "list" -> IF Len(value.l) = 0 THEN "None" ELSE "AssertionError"
      [] value.tag = "pairs" -> "None"
      [] value.tag = "dict" -> "None"
      [] OTHER -> "UnboundLocalError"

\* ------------------------------------------------------ input domains
\* the values callers pass, and the options they register
Perm_xy == PyList(<<PyStr("x"), PyStr("y")>>)
Values ==
    { PyStr("x"), PyInt(1),
      PyList(<<PyStr("y"), PyStr("x")>>), PyList(<<PyStr("x"), PyStr("x")>>),
      PyDict(<<<<"x", 2>>>>), PyDict(<<<<"x", 3>>>>) }
\* the plain values registered as options (wrapped in a TunableOption)
Defaults == { PyInt(1) }
Options ==
    { Option("Permutation", Perm_xy),
      Option("Choice", Perm_xy),
      Option("Choice", PyList(<<PyInt(1), PyInt(2)>>)),
      Option("ChunksOf", PyDict(<<<<"x", 4>>, <<"y", 2>>>>)) }

\* ---------------------------------------------------------------- state
VARIABLES
    tunable_options,  \* Tunable._tunable_options: ordered dict name -> option
    tuned_options,    \* Tunable._tuned_options: ordered dict name -> value
    tuning,           \* Tunable._tuning
    stack,            \* the tune calls in progress, outermost first
    last,             \* the call or step made last and how it ended
    raise_not_tuned,  \* Tunable._raise_not_tuned: "unset", "True" or "False"
    call,             \* a call of a function of the module and its result
    objs,             \* the Tunable objects a graph refers to
    graph,            \* a Delayed: its kind and its dask mapping
    trace             \* what a call on the Delayed or the Field has done

vars == <<tunable_options, tuned_options, tuning, stack, last,
          raise_not_tuned, call, objs, graph, trace>>
\* the state of one Tunable, the state of a graph of Tunables
tunable_vars == <<tunable_options, tuned_options, tuning, stack, last>>
graph_vars == <<objs, graph, trace>>

\* no function has been called, no graph has been built
NoCall == [fn |-> "", done |-> FALSE]
NoGraph == [kind |-> "", obj |-> 0, attr |-> "", dask |-> <<>>]
NoTrace == [op |-> "", events |-> <<>>]

\* where a name is before a call
Status(key) ==
    IF DictHas(tuned_options, key) THEN "tuned"
    ELSE IF DictHas(tunable_options, key) THEN "tunable" ELSE "neither"

\* Tunable.tunable, Tunable.tuned
tunable == Len(tunable_options) > 0
tuned == ~tunable

\* The record of a call or step: op names it ("tune" is the call of
\* tune(key) when it ends before get(), "tune.get" its entry into get(),
\* "tune.return" its end after get(); "tune_all" is the end of tune(None)),
\* value is the value passed (for tune: what the callback would return,
\* None without callback), was the place of the name before, exc the
\* exception raised or "None", ret the value returned, snap the tunable
\* options tune(None) found when it was called, re whether a tune request
\* was made from inside the call that ended.
DoneAll(op, key, value, exc, ret, snap, re) ==
    [op |-> op, key |-> key, value |-> value, was |-> Status(key),
     exc |-> exc, ret |-> ret, snap |-> snap, re |-> re]
Done(op, key, value, exc, ret) == DoneAll(op, key, value, exc, ret, <<>>, FALSE)

\* a call in progress: tune(key) waiting for opt.get() to return, or
\* tune(None) with the names its loop has still to visit
Frame(fn, key, opt, keys, snap) ==
    [fn |-> fn, key |-> key, opt |-> opt, keys |-> keys, snap |-> snap, re |-> FALSE]
\* a tune request is made from inside the calls in progress
Mark(st) == [i \in 1..Len(st) |-> [st[i] EXCEPT !.re = TRUE]]
NoOption == Option("", PyNone)

\* An exception leaves every call in progress: each tune(key) it passes
\* through runs its except clause, and the outermost call is the one that
\* ends with it.
Raise(op, key, value, exc, in_try, is_call) ==
    /\ stack' = <<>>
    /\ tuning' = IF in_try \/ \E i \in 1..Len(stack) : stack[i].fn = "tune"
                 THEN FALSE ELSE tuning
    /\ last' = IF stack = <<>> THEN Done(op, key, value, exc, PyNone)
               ELSE IF stack[1].fn = "tune"
               THEN DoneAll("tune.return", stack[1].key, PyNone, exc, PyNone,
                            <<>>, is_call \/ stack[1].re)
               ELSE DoneAll("tune_all", "", PyNone, exc, PyNone,
                            stack[1].snap, is_call \/ stack[1].re)

Result(exc, tunable_d, tuned_d) ==
    [exc |-> exc, tunable_d |-> tunable_d, tuned_d |-> tuned_d]

\* variants of __setattr__ with one statement changed: the del is missing
setattr_keeps(tunable_d, tuned_d, key, value) ==
    IF DictHas(tunable_d, key) \/ DictHas(tuned_d, key)
    THEN IF DictHas(tunable_d, key)
         THEN LET c == compatible(DictGet(tunable_d, key), value)
              IN  IF c = "True"
                  THEN Result("None", tunable_d, DictSet(tuned_d, key, value))
                  ELSE Result(IF c = "False" THEN "AssertionError" ELSE c, tunable_d, tuned_d)
         ELSE Result("AssertionError", tunable_d, tuned_d)
    ELSE Result("AttributeError", tunable_d, tuned_d)

\* a tuned name is assigned again instead of refused
setattr_overwrites(tunable_d, tuned_d, key, value) ==
    IF DictHas(tunable_d, key) \/ DictHas(tuned_d, key)
    THEN IF DictHas(tunable_d, key)
         THEN LET c == compatible(DictGet(tunable_d, key), value)
              IN  IF c = "True"
                  THEN Result("None", DictDel(tunable_d, key), DictSet(tuned_d, key, value))
                  ELSE Result(IF c = "False" THEN "AssertionError" ELSE c, tunable_d, tuned_d)
         ELSE Result("None", tunable_d, DictSet(tuned_d, key, value))
    ELSE Result("AttributeError", tunable_d, tuned_d)

\* the compatibility check is evaluated after the move instead of before
setattr_checks_late(tunable_d, tuned_d, key, value) ==
    IF DictHas(tunable_d, key) \/ DictHas(tuned_d, key)
    THEN IF DictHas(tunable_d, key)
         THEN LET c == compatible(DictGet(tunable_d, key), value)
              IN  Result(IF c = "True" THEN "None"
                         ELSE IF c = "False" THEN "AssertionError" ELSE c,
                         DictDel(tunable_d, key), DictSet(tuned_d, key, value))
         ELSE Result("AssertionError", tunable_d, tuned_d)
    ELSE Result("AttributeError", tunable_d, tuned_d)

\* writing the value a tuned name already holds is let through
setattr_same_ok(tunable_d, tuned_d, key, value) ==
    IF DictHas(tunable_d, key) \/ DictHas(tuned_d, key)
    THEN IF DictHas(tunable_d, key)
         THEN LET c == compatible(DictGet(tunable_d, key), value)
              IN  IF c = "True"
                  THEN Result("None", DictDel(tunable_d, key), DictSet(tuned_d, key, value))
                  ELSE Result(IF c = "False" THEN "AssertionError" ELSE c, tunable_d, tuned_d)
         ELSE Result(IF PyEq(DictGet(tuned_d, key), value) THEN "None" ELSE "AssertionError",
                     tunable_d, tuned_d)
    ELSE Result("AttributeError", tunable_d, tuned_d)

\* the option's default is stored instead of the value written
setattr_stores_default(tunable_d, tuned_d, key, value) ==
    IF DictHas(tunable_d, key) \/ DictHas(tuned_d, key)
    THEN IF DictHas(tunable_d, key)
         THEN LET c == compatible(DictGet(tunable_d, key), value)
              IN  IF c = "True"
                  THEN Result("None", DictDel(tunable_d, key),
                              DictSet(tuned_d, key, get(DictGet(tunable_d, key))))
                  ELSE Result(IF c = "False" THEN "AssertionError" ELSE c, tunable_d, tuned_d)
         ELSE Result("AssertionError", tunable_d, tuned_d)
    ELSE Result("AttributeError", tunable_d, tuned_d)

\* Tunable.__setattr__(key, value) for a name that is no slot, on the two
\* dicts: the exception raised (or "None") and the dicts afterwards.  A
\* name in neither dict goes to object.__setattr__, which a class with
\* __slots__ and no __dict__ refuses.
setattr(tunable_d, tuned_d, key, value) ==
    IF DictHas(tunable_d, key) \/ DictHas(tuned_d, key)
    THEN IF DictHas(tunable_d, key)
         THEN LET c == compatible(DictGet(tunable_d, key), value)
              IN  IF c = "True"
                  THEN Result("None", DictDel(tunable_d, key), DictSet(tuned_d, key, value))
                  ELSE Result(IF c = "False" THEN "AssertionError" ELSE c, tunable_d, tuned_d)
         ELSE Result("AssertionError", tunable_d, tuned_d)
    ELSE Result("AttributeError", tunable_d, tuned_d)

\* the placeholder a deferred read returns: the DelayedAttr of the name, or
\* the delayed call of a property getter
PyDelayed(x) == [tag |-> "Delayed", s |-> x, n |-> 0, l |-> <<>>, d |-> <<>>]

\* Tunable.__getattr__(key) with the slot _raise_not_tuned holding flag.
\* The lookup of a slot that was never assigned fails and falls back to
\* __getattr__ with the name of the slot, which takes the else branch.
getattr(tunable_d, tuned_d, flag, key) ==
    IF DictHas(tunable_d, key) \/ DictHas(tuned_d, key)
    THEN IF DictHas(tunable_d, key)
         THEN CASE flag = "unset" -> [exc |-> "AttributeError", ret |-> PyNone]
                [] flag = "True" -> [exc |-> "NotTuned", ret |-> PyNone]
                [] OTHER -> [exc |-> "None", ret |-> PyDelayed(key)]
         ELSE [exc |-> "None", ret |-> DictGet(tuned_d, key)]
    ELSE [exc |-> "AttributeError", ret |-> PyNone]

\* Tunable(): both dicts empty, the flag down.  The options and values the
\* constructor is given are registered by the add_* calls it makes, which
\* are the actions below.
Init ==
    /\ tunable_options = <<>>
    /\ tuned_options = <<>>
    /\ tuning = FALSE
    /\ stack = <<>>
    /\ last = [op |-> "__init__", key |-> "", value |-> PyNone, was |-> "neither",
               exc |-> "None", ret |-> PyNone, snap |-> <<>>, re |-> FALSE]
    /\ raise_not_tuned = "unset"
    /\ call = NoCall
    /\ objs = <<>>
    /\ graph = NoGraph
    /\ trace = NoTrace

\* ------------------------------------------------------------- actions
\* the second assert of add_tunable_option is missing
Registered_tunable_only(key) == DictHas(tunable_options, key)

\* the two asserts of add_tunable_option: the name is taken
Registered(key) == DictHas(tunable_options, key) \/ DictHas(tuned_options, key)

\* Tunable.add_tunable_option(key, val), val an option or a plain value
AddTunableOption(key, val, isOption) ==
    /\ stack = <<>>
    /\ UNCHANGED <<tuning, stack, tuned_options>>
    /\ IF Registered(key)
       THEN /\ last' = Done("add_tunable_option", key, PyNone, "AssertionError", PyNone)
            /\ UNCHANGED tunable_options
       ELSE /\ tunable_options' =
                  DictSet(tunable_options, key,
                          IF isOption THEN val ELSE Option("TunableOption", val))
            /\ last' = Done("add_tunable_option", key, PyNone, "None", PyNone)

\* add_tuned_option writes a tunable name into _tuned_options itself
\* instead of going through setattr
AddTunedOption_bypasses(key, val) ==
    /\ stack = <<>>
    /\ UNCHANGED <<tuning, stack>>
    /\ IF DictHas(tuned_options, key)
       THEN /\ last' = Done("add_tuned_option", key, val, "AssertionError", PyNone)
            /\ UNCHANGED <<tunable_options, tuned_options>>
       ELSE /\ tuned_options' = DictSet(tuned_options, key, val)
            /\ tunable_options' = DictDel(tunable_options, key)
            /\ last' = Done("add_tuned_option", key, val, "None", PyNone)

\* Tunable.add_tuned_option(key, val)
AddTunedOption(key, val) ==
    /\ stack = <<>>
    /\ UNCHANGED <<tuning, stack>>
    /\ IF DictHas(tuned_options, key)
       THEN /\ last' = Done("add_tuned_option", key, val, "AssertionError", PyNone)
            /\ UNCHANGED <<tunable_options, tuned_options>>
       ELSE IF DictHas(tunable_options, key)
       THEN LET r == setattr(tunable_options, tuned_options, key, val)
            IN  /\ tunable_options' = r.tunable_d
                /\ tuned_options' = r.tuned_d
                /\ last' = Done("add_tuned_option", key, val, r.exc, PyNone)
       ELSE /\ tuned_options' = DictSet(tuned_options, key, val)
            /\ UNCHANGED tunable_options
            /\ last' = Done("add_tuned_option", key, val, "None", PyNone)

\* obj.key = value
SetAttr(key, value) ==
    /\ stack = <<>>
    /\ UNCHANGED <<tuning, stack>>
    /\ LET r == setattr(tunable_options, tuned_options, key, value)
       IN  /\ tunable_options' = r.tunable_d
           /\ tuned_options' = r.tuned_d
           /\ last' = Done("setattr", key, value, r.exc, PyNone)

\* obj.key, read by the caller
GetAttr(key) ==
    /\ stack = <<>>
    /\ UNCHANGED <<tunable_options, tuned_options, tuning, stack, raise_not_tuned>>
    /\ LET r == getattr(tunable_options, tuned_options, raise_not_tuned, key)
       IN  last' = Done("getattr", key, PyNone, r.exc, r.ret)

\* the flag is put down when the function returns, not in a finally clause
PropertyGet_no_finally(key) ==
    /\ stack = <<>>
    /\ UNCHANGED <<tunable_options, tuned_options, tuning, stack>>
    /\ LET r == getattr(tunable_options, tuned_options, "True", key)
       IN  /\ raise_not_tuned' = IF r.exc = "None" THEN "False" ELSE "True"
           /\ last' = IF r.exc = "NotTuned"
                       THEN Done("property", key, PyNone, "None", PyDelayed("getter"))
                       ELSE Done("property", key, PyNone, r.exc, r.ret)

\* The getter of a tunable_property whose function reads obj.key and
\* returns what it read: the flag is raised, NotTuned is turned into the
\* delayed call of the getter, and the finally clause puts the flag down.
PropertyGet(key) ==
    /\ stack = <<>>
    /\ UNCHANGED <<tunable_options, tuned_options, tuning, stack>>
    /\ raise_not_tuned' = "False"
    /\ LET r == getattr(tunable_options, tuned_options, "True", key)
       IN  last' = IF r.exc = "NotTuned"
                   THEN Done("property", key, PyNone, "None", PyDelayed("getter"))
                   ELSE Done("property", key, PyNone, r.exc, r.ret)

\* What the function of a tunable_property does, one step after the other:
\* it reads obj.key, or it evaluates another tunable_property of the object
\* whose function reads obj.key.
ReadOp(key) == [kind |-> "read", key |-> key]
PropOp(key) == [kind |-> "prop", key |-> key]
BodyOps == {ReadOp(key) : key \in Keys} \cup {PropOp(key) : key \in Keys}
Bodies == {<<a>> : a \in BodyOps} \cup {<<a, b>> : a \in BodyOps, b \in BodyOps}

\* The function body from step i on, the flag being flag: the exception
\* that leaves it or "None", what the last step gave, the flag at its end,
\* and whether NotTuned was raised (and caught) by a getter inside it.
\* The inner getter catches NotTuned and puts the flag down.
RECURSIVE RunBody(_, _, _, _, _, _)
RunBody(tunable_d, tuned_d, flag, body, i, ret) ==
    IF i > Len(body) THEN [exc |-> "None", ret |-> ret, flag |-> flag]
    ELSE LET r == getattr(tunable_d, tuned_d,
                          IF body[i].kind = "prop" THEN "True" ELSE flag, body[i].key)
             after == IF body[i].kind = "prop" THEN "False" ELSE flag
         IN  IF body[i].kind = "prop" /\ r.exc = "NotTuned"
             THEN RunBody(tunable_d, tuned_d, after, body, i + 1, PyDelayed("getter"))
             ELSE IF r.exc # "None"
             THEN [exc |-> r.exc, ret |-> PyNone, flag |-> after]
             ELSE RunBody(tunable_d, tuned_d, after, body, i + 1, r.ret)

\* The getter of a tunable_property whose function is body: the key of the
\* record is the name the last step of the body is about.
PropertyGetBody(body) ==
    /\ stack = <<>>
    /\ UNCHANGED <<tunable_options, tuned_options, tuning, stack>>
    /\ raise_not_tuned' = "False"
    /\ LET r == RunBody(tunable_options, tuned_options, "True", body, 1, PyNone)
           key == body[Len(body)].key
       IN  last' = IF r.exc = "NotTuned"
                   THEN Done("property.body", key, PyNone, "None", PyDelayed("getter"))
                   ELSE Done("property.body", key, PyNone, r.exc, r.ret)

\* A tune call is made by the caller when nothing is in progress, or from
\* inside the get() of the option that is being tuned: get() is a method
\* subclasses override (Choice does), and the body of an override may use
\* the object the option belongs to.  An exception of such a call is not
\* caught by get().
CanCall == IF stack = <<>> THEN TRUE ELSE stack[Len(stack)].fn = "tune"
Depth == Cardinality({i \in 1..Len(stack) : stack[i].fn = "tune"})
Pop(st) == SubSeq(st, 1, Len(st) - 1)
KeySeq(d) == [i \in 1..Len(d) |-> d[i][1]]

\* the flag is raised before the tuned names are looked at
ReturnTuned_sets_flag(key, cbValue) ==
    /\ last' = Done("tune", key, cbValue, "None", DictGet(tuned_options, key))
    /\ tuning' = TRUE
    /\ stack' = Mark(stack)

\* tune(key) of a tuned name: return self.tuned_options[key]
ReturnTuned(key, cbValue) ==
    /\ last' = Done("tune", key, cbValue, "None", DictGet(tuned_options, key))
    /\ stack' = Mark(stack)
    /\ UNCHANGED tuning

\* Tunable.tune(key, **kwargs) up to the call of get(): hasCallback says
\* that kwargs holds a callback, cbValue is what that callback would return
Tune(key, hasCallback, cbValue) ==
    /\ CanCall
    /\ UNCHANGED <<tunable_options, tuned_options>>
    /\ IF DictHas(tuned_options, key)
       THEN ReturnTuned(key, cbValue)
       ELSE IF ~DictHas(tunable_options, key)
       THEN Raise("tune", key, cbValue, "AssertionError", FALSE, TRUE)
       ELSE IF hasCallback
       THEN Raise("tune", key, cbValue, "NameError", TRUE, TRUE)
       ELSE /\ Depth < MaxDepth
            /\ tuning' = TRUE
            /\ stack' = Append(Mark(stack),
                               Frame("tune", key, DictGet(tunable_options, key), <<>>, <<>>))
            /\ last' = Done("tune.get", key, PyNone, "None", PyNone)

\* a failed write undoes what the enclosing tune() has resolved so far
TuneSet_rolls_back ==
    /\ stack # <<>>
    /\ stack[Len(stack)].fn = "tune"
    /\ LET f == stack[Len(stack)]
           value == get(f.opt)
           r == setattr(tunable_options, tuned_options, f.key, value)
           snap == IF stack[1].fn = "tune_all" THEN stack[1].snap ELSE <<>>
       IN  IF r.exc = "None"
           THEN /\ tunable_options' = r.tunable_d
                /\ tuned_options' = r.tuned_d
                /\ stack' = Pop(stack)
                /\ last' = DoneAll("tune.return", f.key, PyNone, "None",
                                   DictGet(r.tuned_d, f.key), <<>>, f.re)
                /\ UNCHANGED tuning
           ELSE /\ Raise("tune.return", f.key, PyNone, r.exc, TRUE, FALSE)
                /\ tuned_options' =
                      SelectSeq(tuned_options, LAMBDA q : ~DictHas(snap, q[1]))
                /\ tunable_options' =
                      tunable_options
                      \o SelectSeq(snap, LAMBDA q : ~DictHas(tunable_options, q[1]))

\* Tunable.tune(key) from the return of get() on: the attribute write and
\* the return of the tuned value
TuneSet ==
    /\ stack # <<>>
    /\ stack[Len(stack)].fn = "tune"
    /\ LET f == stack[Len(stack)]
           value == get(f.opt)
           r == setattr(tunable_options, tuned_options, f.key, value)
       IN  IF r.exc = "None"
           THEN /\ tunable_options' = r.tunable_d
                /\ tuned_options' = r.tuned_d
                /\ stack' = Pop(stack)
                /\ last' = DoneAll("tune.return", f.key, PyNone, "None",
                                   DictGet(r.tuned_d, f.key), <<>>, f.re)
                /\ UNCHANGED tuning
           ELSE /\ Raise("tune.return", f.key, PyNone, r.exc, TRUE, FALSE)
                /\ UNCHANGED <<tunable_options, tuned_options>>

\* Tunable.tune(None, **kwargs): the call, up to the first name of the loop
TuneAll(hasCallback, cbValue) ==
    /\ CanCall
    /\ UNCHANGED <<tunable_options, tuned_options>>
    /\ IF tunable_options = <<>>
       THEN /\ last' = Done("tune_all", "", cbValue, "None", PyNone)
            /\ stack' = Mark(stack)
            /\ UNCHANGED tuning
       ELSE IF hasCallback
       THEN Raise("tune_all", "", cbValue, "NameError", TRUE, TRUE)
       ELSE /\ Depth < MaxDepth
            /\ stack' = Append(Mark(stack), Frame("tune_all", "", NoOption,
                                                  KeySeq(tunable_options), tunable_options))
            /\ last' = Done("tune_all.call", "", PyNone, "None", PyNone)
            /\ UNCHANGED tuning

\* the loop of tune(None): self.tune(key) for the next name
TuneAllNext ==
    /\ stack # <<>>
    /\ stack[Len(stack)].fn = "tune_all"
    /\ stack[Len(stack)].keys # <<>>
    /\ UNCHANGED <<tunable_options, tuned_options>>
    /\ LET f == stack[Len(stack)]
           key == Head(f.keys)
           rest == Append(Pop(stack), [f EXCEPT !.keys = Tail(f.keys)])
       IN  IF DictHas(tuned_options, key)
           THEN /\ stack' = rest
                /\ last' = Done("tune", key, PyNone, "None", DictGet(tuned_options, key))
                /\ UNCHANGED tuning
           ELSE /\ tuning' = TRUE
                /\ stack' = Append(rest, Frame("tune", key, DictGet(tunable_options, key), <<>>, <<>>))
                /\ last' = Done("tune.get", key, PyNone, "None", PyNone)

\* the loop of tune(None) is over: return
TuneAllReturn ==
    /\ stack # <<>>
    /\ stack[Len(stack)].fn = "tune_all"
    /\ stack[Len(stack)].keys = <<>>
    /\ stack' = Pop(stack)
    /\ last' = DoneAll("tune_all", "", PyNone, "None", PyNone,
                       stack[Len(stack)].snap, stack[Len(stack)].re)
    /\ UNCHANGED <<tunable_options, tuned_options, tuning>>

Next ==
    \/ \E key \in Keys, val \in Options : AddTunableOption(key, val, TRUE)
          /\ UNCHANGED <<raise_not_tuned, call, graph_vars>>
    \/ \E key \in Keys, val \in Defaults : AddTunableOption(key, val, FALSE)
          /\ UNCHANGED <<raise_not_tuned, call, graph_vars>>
    \/ \E key \in Keys, val \in Values : AddTunedOption(key, val)
          /\ UNCHANGED <<raise_not_tuned, call, graph_vars>>
    \/ \E key \in Keys, value \in Values : SetAttr(key, value)
          /\ UNCHANGED <<raise_not_tuned, call, graph_vars>>
    \/ \E key \in Keys : Tune(key, FALSE, PyNone)
          /\ UNCHANGED <<raise_not_tuned, call, graph_vars>>
    \/ \E key \in Keys, value \in Values : Tune(key, TRUE, value)
          /\ UNCHANGED <<raise_not_tuned, call, graph_vars>>
    \/ TuneSet
          /\ UNCHANGED <<raise_not_tuned, call, graph_vars>>
    \/ TuneAll(FALSE, PyNone)
          /\ UNCHANGED <<raise_not_tuned, call, graph_vars>>
    \/ \E value \in Values : TuneAll(TRUE, value)
          /\ UNCHANGED <<raise_not_tuned, call, graph_vars>>
    \/ TuneAllNext
          /\ UNCHANGED <<raise_not_tuned, call, graph_vars>>
    \/ TuneAllReturn
          /\ UNCHANGED <<raise_not_tuned, call, graph_vars>>

Spec == Init /\ [][Next]_vars

\* The reads of option names: the calls that register and write names,
\* the attribute read and the property getter.
NextRead ==
    \/ \E key \in Keys, val \in Options : AddTunableOption(key, val, TRUE)
          /\ UNCHANGED <<raise_not_tuned, call, graph_vars>>
    \/ \E key \in Keys, val \in Values : AddTunedOption(key, val)
          /\ UNCHANGED <<raise_not_tuned, call, graph_vars>>
    \/ \E key \in Keys, value \in Values : SetAttr(key, value)
          /\ UNCHANGED <<raise_not_tuned, call, graph_vars>>
    \/ \E key \in Keys : GetAttr(key)
          /\ UNCHANGED <<call, graph_vars>>
    \/ \E key \in Keys : PropertyGet(key)
          /\ UNCHANGED <<call, graph_vars>>
    \/ \E body \in Bodies : PropertyGetBody(body)
          /\ UNCHANGED <<call, graph_vars>>

SpecRead == Init /\ [][NextRead]_vars

\* ------------------------------------------------- graphs of Tunables
\* A Tunable of a graph: its two dicts.
Obj(tunable_d, tuned_d) ==
    [tunable_options |-> tunable_d, tuned_options |-> tuned_d]

\* What a node of the dask graph holds: a Tunable (ref is its place in
\* objs), a list or tuple of such values (a task is the tuple of a function
\* and its arguments), or any other value.
TunableRef(i) == [kind |-> "Tunable", ref |-> i, items |-> <<>>]
Other == [kind |-> "other", ref |-> 0, items |-> <<>>]
ListOf(items) == [kind |-> "list", ref |-> 0, items |-> items]

\* is_tunable looks at the first item only
RECURSIVE is_tunable_first(_)
is_tunable_first(obj) ==
    IF obj.kind = "list"
    THEN IF Len(obj.items) = 0 THEN FALSE
         ELSE is_tunable_first(obj.items[1])
    ELSE IF obj.kind = "Tunable"
         THEN Len(objs[obj.ref].tunable_options) > 0
         ELSE FALSE

\* is_tunable(obj)
RECURSIVE is_tunable(_)
is_tunable(obj) ==
    IF obj.kind = "list"
    THEN IF Len(obj.items) = 0 THEN FALSE
         ELSE is_tunable(obj.items[1]) \/ is_tunable(ListOf(Tail(obj.items)))
    ELSE IF obj.kind = "Tunable"
         THEN Len(objs[obj.ref].tunable_options) > 0
         ELSE FALSE

\* the value stored is that of the last option that is tunable still
Tunable_tune_last_option(self, key, kwargs) ==
    IF DictHas(self.tuned_options, key)
    THEN [exc |-> "None", obj |-> self, resolved |-> FALSE]
    ELSE IF ~DictHas(self.tunable_options, key)
    THEN [exc |-> "AssertionError", obj |-> self, resolved |-> FALSE]
    ELSE IF kwargs = "callback"
    THEN [exc |-> "NameError", obj |-> self, resolved |-> FALSE]
    ELSE LET r == setattr(self.tunable_options, self.tuned_options, key,
                          get(self.tunable_options[Len(self.tunable_options)][2]))
         IN  [exc |-> r.exc, obj |-> Obj(r.tunable_d, r.tuned_d),
              resolved |-> r.exc = "None"]

\* Tunable.tune(key, **kwargs) on an object of the graph, whose options
\* have the get() of their class: the exception or "None", the object
\* after the call, and whether the call has resolved the name.  With a
\* callback among the kwargs the call of the callback names the undefined
\* variable value.
Tunable_tune(self, key, kwargs) ==
    IF DictHas(self.tuned_options, key)
    THEN [exc |-> "None", obj |-> self, resolved |-> FALSE]
    ELSE IF ~DictHas(self.tunable_options, key)
    THEN [exc |-> "AssertionError", obj |-> self, resolved |-> FALSE]
    ELSE IF kwargs = "callback"
    THEN [exc |-> "NameError", obj |-> self, resolved |-> FALSE]
    ELSE LET r == setattr(self.tunable_options, self.tuned_options, key,
                          get(DictGet(self.tunable_options, key)))
         IN  [exc |-> r.exc, obj |-> Obj(r.tunable_d, r.tuned_d),
              resolved |-> r.exc = "None"]

\* Tunable.tune(**kwargs): the loop over the names that were tunable at
\* its start
RECURSIVE Tunable_tune_all(_, _, _)
Tunable_tune_all(self, keys, kwargs) ==
    IF keys = <<>> THEN [exc |-> "None", obj |-> self]
    ELSE LET r == Tunable_tune(self, Head(keys), kwargs)
         IN  IF r.exc # "None" THEN [exc |-> r.exc, obj |-> r.obj]
             ELSE Tunable_tune_all(r.obj, Tail(keys), kwargs)

\* The graph of delayed(t).attr, which is what reading t.attr returns: the
\* object under its own key and the task (getattr, key of the object, attr).
AttrGraph(i, attr) ==
    [kind |-> "attr", obj |-> i, attr |-> attr,
     dask |-> << <<"obj", TunableRef(i)>>,
                 <<"getattr", ListOf(<<Other, Other, Other>>)>> >>]
\* The graph of delayed(t): the object under its own key.
ObjGraph(i) ==
    [kind |-> "obj", obj |-> i, attr |-> "", dask |-> << <<"obj", TunableRef(i)>> >>]
\* The graph of delayed(f)(args): one task, the tuple of f and the arguments.
CallGraph(args) ==
    [kind |-> "call", obj |-> 0, attr |-> "",
     dask |-> << <<"call", ListOf(<<Other>> \o args)>> >>]

\* the objects the graphs are built on, and the graphs
InitObjs ==
    << Obj(<< <<"axes_order", Option("Permutation", Perm_xy)>>,
              <<"chunks", Option("ChunksOf", PyDict(<<<<"x", 4>>, <<"y", 2>>>>))>> >>,
           <<>>),
       Obj(<< <<"chunks", Option("Choice", Perm_xy)>> >>, <<>>) >>
Graphs ==
    {AttrGraph(i, attr) : i \in DOMAIN InitObjs, attr \in Keys \cup {"shape"}}
    \cup { ObjGraph(i) : i \in DOMAIN InitObjs }
    \cup { CallGraph(<<TunableRef(i)>>) : i \in DOMAIN InitObjs }
    \cup { CallGraph(<<TunableRef(i), ListOf(<<Other, TunableRef(j)>>)>>) :
              i, j \in DOMAIN InitObjs }
    \cup { CallGraph(<<Other, ListOf(<<>>)>>) }

\* Delayed.tunable, Delayed.tunable_items (the keys of the items)
Delayed_tunable ==
    is_tunable(ListOf([i \in 1..Len(graph.dask) |-> graph.dask[i][2]]))
Delayed_tunable_items ==
    {graph.dask[i][1] : i \in {j \in 1..Len(graph.dask) : is_tunable(graph.dask[j][2])}}

\* One thing a call does: ev is "tune" (the tuning step of the graph is
\* entered), "obj.compute" (the Delayed of the object is computed to get the
\* object), "resolve" (a name of an object is moved to its tuned options),
\* "obj.tune" (Tunable.tune() of the Field) or "handoff" (the graph is given
\* to the runtime).
Ev(ev, obj, key) == [ev |-> ev, obj |-> obj, key |-> key]

\* Delayed.tune(**kwargs): what it raises, the objects after it, what it
\* did.  The kwargs are not passed on to the tune of the object.
Delayed_tune(kwargs) ==
    IF ~Delayed_tunable
    THEN [exc |-> "None", objs |-> objs, events |-> <<Ev("tune", 0, "")>>]
    ELSE IF graph.kind = "attr"
    THEN LET r == Tunable_tune(objs[graph.obj], graph.attr, "none")
         IN  [exc |-> r.exc,
              objs |-> [objs EXCEPT ![graph.obj] = r.obj],
              events |-> <<Ev("tune", 0, ""), Ev("obj.compute", graph.obj, "")>>
                         \o (IF r.resolved
                             THEN <<Ev("resolve", graph.obj, graph.attr)>>
                             ELSE <<>>)]
    ELSE [exc |-> "None", objs |-> objs, events |-> <<Ev("tune", 0, "")>>]

\* The record of a call on the graph: kwargs is what the caller passed as
\* tuning keyword arguments ("none" or "callback"), before the objects
\* before the call, open whether the graph was tunable when the call ended
\* or handed the graph over, marked the keys visualize has coloured.
Traced(op, kwargs, exc, events, marked) ==
    [op |-> op, kwargs |-> kwargs, exc |-> exc, events |-> events,
     before |-> objs, open |-> Delayed_tunable', marked |-> marked]

\* the tuning keyword arguments callers pass
Kwargs == {"none", "callback"}

InitGraph ==
    /\ tunable_options = <<>>
    /\ tuned_options = <<>>
    /\ tuning = FALSE
    /\ stack = <<>>
    /\ last = [op |-> "__init__", key |-> "", value |-> PyNone, was |-> "neither",
               exc |-> "None", ret |-> PyNone, snap |-> <<>>, re |-> FALSE]
    /\ raise_not_tuned = "unset"
    /\ call = NoCall
    /\ objs = InitObjs
    /\ graph \in Graphs
    /\ trace = NoTrace

\* t.tune(key) called by the user on an object of the graph
ObjTune(i, key) ==
    /\ UNCHANGED graph
    /\ LET r == Tunable_tune(objs[i], key, "none")
       IN  /\ objs' = [objs EXCEPT ![i] = r.obj]
           /\ trace' = Traced("Tunable.tune", "none", r.exc,
                              IF r.resolved THEN <<Ev("resolve", i, key)>> ELSE <<>>, {})

\* Delayed.tune(**kwargs)
DelayedTune(kwargs) ==
    /\ UNCHANGED graph
    /\ LET r == Delayed_tune(kwargs)
       IN  /\ objs' = r.objs
           /\ trace' = Traced("Delayed.tune", kwargs, r.exc, r.events, {})

\* Delayed.compute(tune=tune, tune_kwargs=kwargs)
DelayedCompute(tune, kwargs) ==
    /\ UNCHANGED graph
    /\ LET r == IF tune THEN Delayed_tune(kwargs)
                ELSE [exc |-> "None", objs |-> objs, events |-> <<>>]
       IN  /\ objs' = r.objs
           /\ trace' = Traced(IF tune THEN "Delayed.compute" ELSE "Delayed.compute(tune=False)",
                              kwargs, r.exc,
                              IF r.exc = "None"
                              THEN r.events \o <<Ev("handoff", 0, "")>>
                              ELSE r.events, {})

\* visualize runs the tuning step of the graph first
DelayedVisualize_tunes(mark_tunable) ==
    /\ UNCHANGED graph
    /\ LET r == Delayed_tune("none")
       IN  /\ objs' = r.objs
           /\ trace' = Traced("Delayed.visualize", "none", r.exc,
                              IF r.exc = "None"
                              THEN r.events \o <<Ev("handoff", 0, "")>>
                              ELSE r.events, {})

\* Delayed.visualize(mark_tunable=...): the keys of the tunable items that
\* are Tunables are given the colour, and the graph goes to the runtime
DelayedVisualize(mark_tunable) ==
    /\ UNCHANGED <<objs, graph>>
    /\ trace' = Traced("Delayed.visualize", "none", "None", <<Ev("handoff", 0, "")>>,
                       IF mark_tunable
                       THEN {k \in Delayed_tunable_items :
                               DictGet(graph.dask, k).kind = "Tunable"}
                       ELSE {})

\* Field.compute(tune_kwargs=kwargs) of the Field f whose field is the
\* graph: Tunable.tune(**kwargs) of the Field, then self.field.persist()
FieldCompute(f, kwargs) ==
    /\ UNCHANGED graph
    /\ LET r == Tunable_tune_all(objs[f], KeySeq(objs[f].tunable_options), kwargs)
       IN  /\ objs' = [objs EXCEPT ![f] = r.obj]
           /\ trace' = Traced("Field.compute", kwargs, r.exc,
                              IF r.exc = "None"
                              THEN <<Ev("obj.tune", f, ""), Ev("handoff", 0, "")>>
                              ELSE <<Ev("obj.tune", f, "")>>, {})

\* Field.visualize(): self.field.visualize()
FieldVisualize(f) ==
    /\ UNCHANGED <<objs, graph>>
    /\ trace' = Traced("Field.visualize", "none", "None", <<Ev("handoff", 0, "")>>,
                       {k \in Delayed_tunable_items :
                           DictGet(graph.dask, k).kind = "Tunable"})

NextGraph ==
    \/ \E i \in DOMAIN objs, key \in Keys : ObjTune(i, key)
          /\ UNCHANGED <<tunable_vars, raise_not_tuned, call>>
    \/ \E kwargs \in Kwargs : DelayedTune(kwargs)
          /\ UNCHANGED <<tunable_vars, raise_not_tuned, call>>
    \/ \E tune \in BOOLEAN, kwargs \in Kwargs : DelayedCompute(tune, kwargs)
          /\ UNCHANGED <<tunable_vars, raise_not_tuned, call>>
    \/ \E mark_tunable \in BOOLEAN : DelayedVisualize(mark_tunable)
          /\ UNCHANGED <<tunable_vars, raise_not_tuned, call>>
    \/ \E f \in DOMAIN objs, kwargs \in Kwargs : FieldCompute(f, kwargs)
          /\ UNCHANGED <<tunable_vars, raise_not_tuned, call>>
    \/ \E f \in DOMAIN objs : FieldVisualize(f)
          /\ UNCHANGED <<tunable_vars, raise_not_tuned, call>>

SpecGraph == InitGraph /\ [][NextGraph]_vars

\* ------------------------------------------- the functions on their own
\* the longest list of labels, the deepest nesting of lists, the largest
\* size of an axis
MaxLen == 3
MaxNest == 2
MaxSize == 4
Labels == {"x", "y", "z"}
Axes == {"x", "y"}

\* the sequences over S of length up to n
SeqsUpTo(S, n) == UNION {[1..k -> S] : k \in 0..n}
\* the dicts with one or two of the keys K and values in V
DictsOver(K, V) ==
    {<< <<k, v>> >> : k \in K, v \in V}
    \cup {d \in {<< <<k1, v1>>, <<k2, v2>> >> :
                    k1 \in K, k2 \in K, v1 \in V, v2 \in V} : d[1][1] # d[2][1]}

\* a Tunable with a tunable option and a Tunable that is fully tuned
CallObjs ==
    << Obj(<< <<"chunks", Option("Choice", Perm_xy)>> >>, <<>>),
       Obj(<<>>, << <<"chunks", PyStr("x")>> >>) >>
\* the lists of none, one or two items of S
ShortLists(S) == {<<>>} \cup {<<a>> : a \in S} \cup {<<a, b>> : a \in S, b \in S}
\* the values is_tunable is called on, lists nested up to depth n
RECURSIVE ItemsAt(_)
ItemsAt(n) ==
    LET Leaves == {TunableRef(i) : i \in DOMAIN CallObjs} \cup {Other}
    IN  IF n = 0 THEN Leaves
        ELSE Leaves \cup {ListOf(l) : l \in ShortLists(ItemsAt(n - 1))}
\* the lists of labels, the values the constructors are given
LabelLists == {PyList([i \in DOMAIN l |-> PyStr(l[i])]) : l \in SeqsUpTo(Labels, MaxLen)}
InitValues ==
    {PyList(<<>>), Perm_xy, PyList(<<PyInt(1)>>), PyStr("x"), PyInt(1), PyNone,
     PyDict(<<>>), PyDict(<<<<"x", 4>>>>)}

\* the options of the objects tune() is called on
TuneOptions ==
    Options \cup {Option("Permutation", PyList(<<PyStr("y"), PyStr("x")>>))}

\* the options whose default is given back to them: plain values, the
\* permutations of lists of labels, the choices among labels, among ints
\* and among lists, and the chunks of shapes with positive sizes
DefaultOptions ==
    {Option("TunableOption", v) : v \in InitValues}
    \cup {Option("Permutation", v) : v \in LabelLists}
    \cup {Option("Choice", v) : v \in (LabelLists \ {PyList(<<>>)})}
    \cup {Option("Choice", PyList(<<PyInt(1), PyInt(2)>>)),
          Option("Choice", PyList(<<Perm_xy, PyList(<<>>)>>))}
    \cup {Option("ChunksOf", PyDict(d)) : d \in DictsOver(Axes, 1..MaxSize)}

InitCall ==
    /\ tunable_options = <<>>
    /\ tuned_options = <<>>
    /\ tuning = FALSE
    /\ stack = <<>>
    /\ last = [op |-> "__init__", key |-> "", value |-> PyNone, was |-> "neither",
               exc |-> "None", ret |-> PyNone, snap |-> <<>>, re |-> FALSE]
    /\ raise_not_tuned = "unset"
    /\ objs = CallObjs
    /\ graph = NoGraph
    /\ trace = NoTrace
    /\ \/ \E obj \in ItemsAt(MaxNest) :
            call = [fn |-> "is_tunable", obj |-> obj, done |-> FALSE]
       \/ \E labels \in LabelLists, value \in LabelLists :
            call = [fn |-> "Permutation.compatible",
                    self |-> Option("Permutation", labels), value |-> value,
                    done |-> FALSE]
       \/ \E bound \in DictsOver(Axes, 1..MaxSize),
             c \in DictsOver(Axes \cup {"z"}, (0 - 1)..(MaxSize + 1)) \cup {<<>>} :
            call = [fn |-> "ChunksOf.compatible",
                    self |-> Option("ChunksOf", PyDict(bound)), value |-> PyDict(c),
                    done |-> FALSE]
       \/ \E cls \in {"Permutation", "Choice", "ChunksOf"}, value \in InitValues :
            call = [fn |-> "__init__", cls |-> cls, value |-> value, done |-> FALSE]
       \/ \E first \in DictsOver(Keys, TuneOptions) :
            \E second \in {d \in DictsOver(Keys, TuneOptions) : DictEq(d, first)} :
               call = [fn |-> "Tunable.tune", first |-> first, second |-> second,
                       done |-> FALSE]
       \/ \E opt \in DefaultOptions :
            call = [fn |-> "compatible(get())", self |-> opt, done |-> FALSE]

\* is_tunable(obj) is called
CallIsTunable ==
    /\ call.fn = "is_tunable" /\ ~call.done
    /\ call' = [fn |-> call.fn, obj |-> call.obj, done |-> TRUE,
                out |-> is_tunable(call.obj)]

\* self.compatible(value) is called on a Permutation
CallPermutationCompatible ==
    /\ call.fn = "Permutation.compatible" /\ ~call.done
    /\ call' = [fn |-> call.fn, self |-> call.self, value |-> call.value,
                done |-> TRUE, out |-> compatible(call.self, call.value)]

\* self.compatible(value) is called on a ChunksOf
CallChunksOfCompatible ==
    /\ call.fn = "ChunksOf.compatible" /\ ~call.done
    /\ call' = [fn |-> call.fn, self |-> call.self, value |-> call.value,
                done |-> TRUE, out |-> compatible(call.self, call.value)]

\* cls(value) is called
CallInit ==
    /\ call.fn = "__init__" /\ ~call.done
    /\ call' = [fn |-> call.fn, cls |-> call.cls, value |-> call.value,
                done |-> TRUE,
                out |-> CASE call.cls = "Permutation" -> Permutation_init(call.value)
                          [] call.cls = "Choice" -> Choice_init(call.value)
                          [] OTHER -> ChunksOf_init(call.value)]

\* Tunable(**first).tune() and Tunable(**second).tune(), the same options
\* given to the constructor in two orders
CallTune ==
    /\ call.fn = "Tunable.tune" /\ ~call.done
    /\ call' = [fn |-> call.fn, first |-> call.first, second |-> call.second,
                done |-> TRUE,
                out |-> Tunable_tune_all(Obj(call.first, <<>>), KeySeq(call.first), "none"),
                other |-> Tunable_tune_all(Obj(call.second, <<>>), KeySeq(call.second), "none")]

\* self.compatible(self.get()) is called on an option, and tune("chunks")
\* on a Tunable that has the option under that name
CallDefault ==
    /\ call.fn = "compatible(get())" /\ ~call.done
    /\ call' = [fn |-> call.fn, self |-> call.self, done |-> TRUE,
                out |-> compatible(call.self, get(call.self)),
                tune |-> Tunable_tune(Obj(<< <<"chunks", call.self>> >>, <<>>),
                                      "chunks", "none")]

NextCall ==
    \/ CallDefault
          /\ UNCHANGED <<tunable_vars, raise_not_tuned, graph_vars>>
    \/ CallIsTunable
          /\ UNCHANGED <<tunable_vars, raise_not_tuned, graph_vars>>
    \/ CallPermutationCompatible
          /\ UNCHANGED <<tunable_vars, raise_not_tuned, graph_vars>>
    \/ CallChunksOfCompatible
          /\ UNCHANGED <<tunable_vars, raise_not_tuned, graph_vars>>
    \/ CallInit
          /\ UNCHANGED <<tunable_vars, raise_not_tuned, graph_vars>>
    \/ CallTune
          /\ UNCHANGED <<tunable_vars, raise_not_tuned, graph_vars>>

SpecCall == InitCall /\ [][NextCall]_vars

\* ------------------------------------------------------------ the Field
\* The lattice a Field is built on: the names of its dimensions and of its
\* degrees of freedom, and the extent of every axis.  The lattice hands out
\* names that end in no "_" followed by digits.
Dims == {"x", "y"}
Dofs == {"spin"}
Lattices == {<< <<"x", ex>>, <<"y", 2>>, <<"spin", 3>> >> : ex \in {1, MaxSize}}
\* the axes of a Field: what lattice.expand returns for its field type
FieldAxes ==
    { <<"x">>, <<"spin">>, <<"x", "y">>, <<"y", "x">>, <<"x", "x">>, <<"x", "spin">>,
      <<"spin", "spin">>, <<"x", "y", "spin">>, <<"x", "spin", "spin">>,
      <<"spin", "x", "spin">>, <<"spin", "spin", "spin">> }

\* str(n) of a small count, and whether a character is a digit
Digits == <<"0", "1", "2", "3", "4", "5", "6", "7", "8", "9">>
str(n) == Digits[n + 1]
IsDigit(c) == \E i \in DOMAIN Digits : Digits[i] = c

\* re.sub("_[0-9]+$", "", key): the digits that end key[1..n] are counted,
\* and they go with the "_" before them when there is one
RECURSIVE DigitsAtEnd(_, _)
DigitsAtEnd(key, n) ==
    IF n = 0 THEN 0
    ELSE IF IsDigit(SubSeq(key, n, n)) THEN 1 + DigitsAtEnd(key, n - 1) ELSE 0
re_sub(key) ==
    LET d == DigitsAtEnd(key, Len(key))
        n == Len(key) - d
    IN  IF d > 0 /\ n > 0 /\ SubSeq(key, n, n) = "_" THEN SubSeq(key, 1, n - 1) ELSE key

\* the counter of the occurrences starts at one
indeces_from_one(axes) ==
    LET counts(a) == Cardinality({j \in 1..Len(axes) : axes[j] = a})
        idxs(i) == Cardinality({j \in 1..(i - 1) : axes[j] = axes[i]})
        ind == [i \in 1..Len(axes) |->
                   IF counts(axes[i]) > 1 THEN axes[i] \o "_" \o str(idxs(i) + 1)
                   ELSE axes[i]]
    IN  [exc |-> IF Cardinality({ind[i] : i \in DOMAIN ind}) = Len(ind)
                 THEN "None" ELSE "AssertionError",
         ret |-> ind]

\* BaseField.indeces: counts is Counter(self.axes), idxs the count of an
\* axis when the loop reaches place i; the assertion is made on the result
indeces(axes) ==
    LET counts(a) == Cardinality({j \in 1..Len(axes) : axes[j] = a})
        idxs(i) == Cardinality({j \in 1..(i - 1) : axes[j] = axes[i]})
        ind == [i \in 1..Len(axes) |->
                   IF counts(axes[i]) > 1 THEN axes[i] \o "_" \o str(idxs(i))
                   ELSE axes[i]]
    IN  [exc |-> IF Cardinality({ind[i] : i \in DOMAIN ind}) = Len(ind)
                 THEN "None" ELSE "AssertionError",
         ret |-> ind]

\* BaseField.shape, coords the selected coordinates of the restricted
\* indeces: arange(n)[c] has as many entries as the list c of positions
BaseField_shape(lattice, coords, axes) ==
    LET ind == indeces(axes).ret
        get_size(key) ==
            LET axis == re_sub(key)
            IN  IF DictHas(coords, key) THEN Len(DictGet(coords, key))
                ELSE DictGet(lattice, axis)
    IN  [i \in 1..Len(ind) |-> <<ind[i], get_size(ind[i])>>]

\* the extent of the lattice is taken for a restricted axis too
Field_shape_unrestricted(lattice, coords, axes) ==
    [i \in 1..Len(axes) |-> <<axes[i], DictGet(lattice, axes[i])>>]

\* Field.shape, coords the selected coordinates of the restricted axes
Field_shape(lattice, coords, axes) ==
    LET get_size(key) ==
            IF DictHas(coords, key) THEN Len(DictGet(coords, key))
            ELSE DictGet(lattice, key)
    IN  [i \in 1..Len(axes) |-> <<axes[i], get_size(axes[i])>>]

\* Field.size: the loop over shape, from item i on
RECURSIVE Field_size(_, _)
Field_size(shape, i) ==
    IF i > Len(shape) THEN 1 ELSE shape[i][2] * Field_size(shape, i + 1)

\* Field.dims
Field_dims(axes) == SelectSeq(axes, LAMBDA key : key \in Dims)

\* the list of the names as a value, and the names of such a value
NameList(axes) == PyList([i \in 1..Len(axes) |-> PyStr(axes[i])])
Names(value) == [i \in 1..Len(value.l) |-> value.l[i].s]
\* a list of tuples as a value: the empty one is the empty list
ListOfPairs(pairs) == IF pairs = <<>> THEN PyList(<<>>) ELSE PyPairs(pairs)

\* the loop over Counter(self.axes).items() of Field.__init__, from the
\* item at place i on: a name is met where it occurs first
RECURSIVE add_order_options(_, _, _)
add_order_options(axes, i, tunable_d) ==
    IF i > Len(axes) THEN tunable_d
    ELSE LET key == axes[i]
             count == Cardinality({j \in 1..Len(axes) : axes[j] = key})
             first == \A j \in 1..(i - 1) : axes[j] # key
             opt == Option("Permutation", PyList([k \in 1..count |-> PyInt(k - 1)]))
         IN  add_order_options(axes, i + 1,
                 IF first /\ count > 1 THEN DictSet(tunable_d, key \o "_order", opt)
                 ELSE tunable_d)

\* the chunks are taken over every axis, the degrees of freedom too
Field_init_all_axes(lattice, coords, axes) ==
    LET shape == Field_shape(lattice, coords, axes)
        a == << <<"axes_order", Option("Permutation", NameList(axes))>> >>
        r == IF Cardinality({axes[i] : i \in 1..Len(axes)}) = 1
             THEN setattr(a, <<>>, "axes_order", NameList(axes))
             ELSE Result("None", a, <<>>)
        b == add_order_options(axes, 1, r.tunable_d)
        chunks == SelectSeq(shape, LAMBDA p : p[2] > 1)
        c == DictSet(b, "chunks", Option("ChunksOf", PyDict(DictOf(chunks, <<>>))))
    IN  IF Field_size(chunks, 1) = 1
        THEN setattr(c, r.tuned_d, "chunks", ListOfPairs(chunks))
        ELSE Result("None", c, r.tuned_d)

\* Field.__init__ from the registration of axes_order to that of chunks:
\* the exception raised (or "None") and the two dicts of options
Field_init(lattice, coords, axes) ==
    LET shape == Field_shape(lattice, coords, axes)
        dims == Field_dims(axes)
        a == << <<"axes_order", Option("Permutation", NameList(axes))>> >>
        r == IF Cardinality({axes[i] : i \in 1..Len(axes)}) = 1
             THEN setattr(a, <<>>, "axes_order", NameList(axes))
             ELSE Result("None", a, <<>>)
        b == add_order_options(axes, 1, r.tunable_d)
        chunks == SelectSeq(shape,
                      LAMBDA p : p[2] > 1 /\ \E j \in 1..Len(dims) : dims[j] = p[1])
        c == DictSet(b, "chunks", Option("ChunksOf", PyDict(DictOf(chunks, <<>>))))
    IN  IF Field_size(chunks, 1) = 1
        THEN setattr(c, r.tuned_d, "chunks", ListOfPairs(chunks))
        ELSE Result("None", c, r.tuned_d)

\* keys.index(key) and keys.pop(idx)
Index(keys, key) ==
    CHOOSE i \in 1..Len(keys) : keys[i] = key /\ \A j \in 1..(i - 1) : keys[j] # key
ListPop(l, idx) == SubSeq(l, 1, idx - 1) \o SubSeq(l, idx + 1, Len(l))
Column(pairs, c) == [i \in 1..Len(pairs) |-> pairs[i][c]]

\* the value a deferred function returns, and the one a call returns or
\* the exception it raises
Deferred == [exc |-> "None", delayed |-> TRUE, ret |-> <<>>]
Computed(exc, ret) == [exc |-> exc, delayed |-> FALSE, ret |-> ret]

\* the sizes in the order of shape, whatever axes_order says
field_shape_unordered(keys, vals, axes_order, shape) == vals

\* the loop of the function field_shape(axes_order) over an axes_order that
\* Permutation.compatible has let through: keys and vals are the two lists
\* zip(*self.shape) gives, shape the list built so far
RECURSIVE field_shape(_, _, _, _)
field_shape(keys, vals, axes_order, shape) ==
    IF axes_order = <<>> THEN shape
    ELSE LET idx == Index(keys, Head(axes_order))
         IN  field_shape(ListPop(keys, idx), ListPop(vals, idx), Tail(axes_order),
                         Append(shape, vals[idx]))

\* Field.field_shape: the call is deferred while axes_order is a Delayed
Field_field_shape(tuned_d, shape) ==
    IF ~DictHas(tuned_d, "axes_order") THEN Deferred
    ELSE Computed("None", field_shape(Column(shape, 1), Column(shape, 2),
                                      Names(DictGet(tuned_d, "axes_order")), <<>>))

\* keys, vals = zip(*chunks): a list of tuples gives its keys and its
\* values, a dict is iterated over its keys and gives their first and
\* their second characters when the shortest key has two characters;
\* anything else cannot be unpacked into two
MinLen(keys) == CHOOSE n \in {Len(keys[i]) : i \in 1..Len(keys)} :
                    \A i \in 1..Len(keys) : n <= Len(keys[i])
Unzip(chunks) ==
    CASE chunks.tag = "pairs" ->
           [exc |-> "None", keys |-> Column(chunks.d, 1), vals |-> Column(chunks.d, 2)]
      [] chunks.tag = "dict" /\ Len(chunks.d) > 0 ->
           IF MinLen(Column(chunks.d, 1)) = 2
           THEN [exc |-> "None",
                 keys |-> [i \in 1..Len(chunks.d) |-> SubSeq(chunks.d[i][1], 1, 1)],
                 vals |-> [i \in 1..Len(chunks.d) |-> SubSeq(chunks.d[i][1], 2, 2)]]
           ELSE [exc |-> "ValueError", keys |-> <<>>, vals |-> <<>>]
      [] OTHER -> [exc |-> "ValueError", keys |-> <<>>, vals |-> <<>>]

\* the loop of the function field_chunks(chunks, axes_order)
RECURSIVE field_chunks(_, _, _, _, _, _)
field_chunks(Skeys, Svals, Ckeys, Cvals, axes_order, chunks) ==
    IF axes_order = <<>> THEN chunks
    ELSE LET key == Head(axes_order)
             sidx == Index(Skeys, key)
         IN  IF \E i \in 1..Len(Ckeys) : Ckeys[i] = key
             THEN LET idx == Index(Ckeys, key)
                  IN  field_chunks(ListPop(Skeys, sidx), ListPop(Svals, sidx),
                                   ListPop(Ckeys, idx), ListPop(Cvals, idx),
                                   Tail(axes_order), Append(chunks, Cvals[idx]))
             ELSE field_chunks(ListPop(Skeys, sidx), ListPop(Svals, sidx),
                               Ckeys, Cvals,
                               Tail(axes_order), Append(chunks, Svals[sidx]))

\* Field.field_chunks: the call is deferred while chunks or axes_order is
\* a Delayed
Field_field_chunks(tuned_d, shape) ==
    IF ~DictHas(tuned_d, "chunks") \/ ~DictHas(tuned_d, "axes_order") THEN Deferred
    ELSE LET z == Unzip(DictGet(tuned_d, "chunks"))
         IN  IF z.exc # "None" THEN Computed(z.exc, <<>>)
             ELSE Computed("None",
                      field_chunks(Column(shape, 1), Column(shape, 2), z.keys, z.vals,
                                   Names(DictGet(tuned_d, "axes_order")), <<>>))

\* a dask array: its shape and its chunksize; NoArray is the field a Field
\* has before one is assigned (the getter returns None)
Array(shape, chunksize) == [shape |-> shape, chunksize |-> chunksize]
NoArray == Array(<<>>, <<>>)
\* what the setter leaves: the exception raised (or "None"), the two dicts
\* and the value of _field
Stored(exc, tunable_d, tuned_d, field) ==
    [exc |-> exc, tunable_d |-> tunable_d, tuned_d |-> tuned_d, field |-> field]

\* zip(a, b) as a list of tuples
Zip(a, b) ==
    [i \in 1..(IF Len(a) < Len(b) THEN Len(a) ELSE Len(b)) |-> <<a[i], b[i]>>]

\* the value is stored before its shape is looked at
Field_field_setter_stores_first(tunable_d, tuned_d, shape, field, value) ==
    LET fs == Field_field_shape(tuned_d, shape)
    IN  IF fs.delayed THEN Stored("AssertionError", tunable_d, tuned_d, value)
        ELSE IF fs.ret # value.shape THEN Stored("AssertionError", tunable_d, tuned_d, value)
        ELSE Stored("None", tunable_d, tuned_d, value)

\* the setter of Field.field for a value that is a dask Array
Field_field_setter(tunable_d, tuned_d, shape, field, value) ==
    LET fs == Field_field_shape(tuned_d, shape)
    IN  IF fs.delayed THEN Stored("AssertionError", tunable_d, tuned_d, field)
        ELSE IF fs.ret # value.shape THEN Stored("AssertionError", tunable_d, tuned_d, field)
        ELSE LET fc == Field_field_chunks(tuned_d, shape)
             IN  IF fc.exc # "None" THEN Stored(fc.exc, tunable_d, tuned_d, field)
                 ELSE IF fc.delayed
                 THEN LET axes_order == Names(DictGet(tuned_d, "axes_order"))
                          r == setattr(tunable_d, tuned_d, "chunks",
                                       PyDict(DictOf(Zip(axes_order, value.chunksize), <<>>)))
                      IN  IF r.exc # "None" THEN Stored(r.exc, tunable_d, tuned_d, field)
                          ELSE Stored("None", r.tunable_d, r.tuned_d, value)
                 ELSE Stored("None", tunable_d, tuned_d, Array(value.shape, fc.ret))

\* NumpyBackend.initialize(field) for a field that is not None, fixed
\* being indeces_order.fixed: the exception raised or "None"
NumpyBackend_initialize(fixed, ordered_shape, field) ==
    IF ~fixed THEN "ValueError"
    ELSE IF ~(field.shape = ordered_shape) THEN "ValueError"
    ELSE "None"

\* the Field: what the constructor was given, and the array it holds
Field(lattice, axes, coords, icoords, field) ==
    [fn |-> "Field", done |-> TRUE, lattice |-> lattice, axes |-> axes,
     coords |-> coords, icoords |-> icoords, field |-> field]
\* self.shape of the Field
Shape == Field_shape(call.lattice, call.coords, call.axes)

\* the lists of positions a Field is restricted to on an axis of extent n
Selections(n) == {c \in {<<0>>, <<0, 1>>} : Len(c) <= n}
\* the items of a list in their order, from the last to the first, and
\* with the first item moved to the end
Orders(l) ==
    {l, [i \in 1..Len(l) |-> l[Len(l) + 1 - i]], Tail(l) \o <<Head(l)>>}
\* the values written to axes_order and to chunks
AxesOrders == {NameList(l) : l \in Orders(call.axes)} \cup {NameList(<<"x", "t">>)}
ChunkValues ==
    { PyList(<<>>), PyPairs(<< <<"y", 1>> >>),
      PyPairs(<< <<"x", MaxSize>>, <<"y", 2>> >>),
      PyDict(<< <<"x", 1>>, <<"y", 2>> >>), PyDict(<< <<"spin", 3>> >>) }
\* the arrays assigned: the sizes of the Field in some order or one size
\* off, in one block, in blocks of one entry, or the even sizes halved
ChunkSizes(s) ==
    { s, [i \in 1..Len(s) |-> 1],
      [i \in 1..Len(s) |-> IF s[i] % 2 = 0 THEN s[i] \div 2 ELSE s[i]] }
Arrays ==
    LET sizes == Column(Shape, 2)
        shapes == Orders(sizes) \cup {[sizes EXCEPT ![1] = @ + 1]}
    IN  UNION {{Array(s, c) : c \in ChunkSizes(s)} : s \in shapes}
\* the numpy arrays a backend is initialized with
NumpyArrays == {a \in Arrays : a.chunksize = a.shape}

\* Field(lattice=lattice, field_type=axes, coords=coords)
InitField ==
    /\ tuning = FALSE
    /\ stack = <<>>
    /\ raise_not_tuned = "unset"
    /\ objs = <<>>
    /\ graph = NoGraph
    /\ trace = NoTrace
    /\ \E lattice \in Lattices, axes \in FieldAxes :
          \E pos \in 0..Len(axes) :
             \E c \in IF pos = 0 THEN {<<>>} ELSE Selections(DictGet(lattice, axes[pos])) :
                LET coords == IF pos = 0 THEN <<>> ELSE << <<axes[pos], c>> >>
                    icoords == IF pos = 0 THEN <<>>
                               ELSE << <<indeces(axes).ret[pos], c>> >>
                    r == Field_init(lattice, coords, axes)
                IN  /\ call = Field(lattice, axes, coords, icoords, NoArray)
                    /\ tunable_options = r.tunable_d
                    /\ tuned_options = r.tuned_d
                    /\ last = [op |-> "__init__", key |-> "", value |-> PyNone,
                               was |-> "neither", exc |-> r.exc, ret |-> PyNone,
                               snap |-> <<>>, re |-> FALSE]

\* self.key = value for one of the options of the Field
FieldSetAttr(key, value) ==
    LET r == setattr(tunable_options, tuned_options, key, value)
    IN  /\ last' = Done("setattr", key, PyNone, r.exc, PyNone)
        /\ tunable_options' = r.tunable_d
        /\ tuned_options' = r.tuned_d
        /\ UNCHANGED <<tuning, stack, call>>

\* self.tune()
FieldTune ==
    LET r == Tunable_tune_all(Obj(tunable_options, tuned_options),
                              KeySeq(tunable_options), "none")
    IN  /\ tunable
        /\ last' = DoneAll("tune_all", "", PyNone, r.exc, PyNone, tunable_options, FALSE)
        /\ tunable_options' = r.obj.tunable_options
        /\ tuned_options' = r.obj.tuned_options
        /\ UNCHANGED <<tuning, stack, call>>

\* self.field = value for a dask Array
FieldSetField(value) ==
    LET r == Field_field_setter(tunable_options, tuned_options, Shape, call.field, value)
    IN  /\ last' = [op |-> "field.setter", key |-> "field", value |-> value,
                    was |-> "neither", exc |-> r.exc, ret |-> PyNone,
                    snap |-> <<>>, re |-> FALSE]
        /\ tunable_options' = r.tunable_d
        /\ tuned_options' = r.tuned_d
        /\ call' = [call EXCEPT !.field = r.field]
        /\ UNCHANGED <<tuning, stack>>

\* a NumpyBackend of the Field is initialized with an array
FieldInitialize(value) ==
    /\ last' = [op |-> "initialize", key |-> "field", value |-> value,
                was |-> "neither",
                exc |-> NumpyBackend_initialize(
                            DictHas(tuned_options, "axes_order"),
                            Field_field_shape(tuned_options, Shape).ret, value),
                ret |-> PyNone, snap |-> <<>>, re |-> FALSE]
    /\ UNCHANGED <<tunable_options, tuned_options, tuning, stack, call>>

NextField ==
    \/ \E value \in AxesOrders : FieldSetAttr("axes_order", value)
          /\ UNCHANGED <<raise_not_tuned, graph_vars>>
    \/ \E value \in ChunkValues : FieldSetAttr("chunks", value)
          /\ UNCHANGED <<raise_not_tuned, graph_vars>>
    \/ FieldTune
          /\ UNCHANGED <<raise_not_tuned, graph_vars>>
    \/ \E value \in Arrays : FieldSetField(value)
          /\ UNCHANGED <<raise_not_tuned, graph_vars>>
    \/ \E value \in NumpyArrays : FieldInitialize(value)
          /\ UNCHANGED <<raise_not_tuned, graph_vars>>

SpecField == InitField /\ [][NextField]_vars

\* ------------------------------------------- the attributes of a Field
\* lattice.properties: the groups of axes the lattice declares, each a list
\* of names; lattice[name] is the list for such a name, and the extent for
\* an axis
Lattice_properties ==
    << <<"dims", <<"x", "y">>>>, <<"dofs", <<"spin">>>>,
       <<"space", <<"y">>>>, <<"plane", <<"y", "spin">>>> >>

\* Field._field_types
Field_field_types ==
    << <<"scalar", <<"dims">>>>, <<"vector", <<"dims", "dofs">>>>,
       <<"propagator", <<"dims", "dofs", "dofs">>>>,
       <<"gauge_links", <<"dims", "n_dims", "gauge_dofs", "gauge_dofs">>>> >>

\* what a function of the Field leaves: the exception raised (or "None")
\* and the Field
Left(exc, self) == [exc |-> exc, self |-> self]
\* what a function returns, or the exception it raises
Returned(ret) == [exc |-> "None", ret |-> ret]
Failed(exc) == [exc |-> exc, ret |-> <<>>]

\* the items of a list
ItemsOf(l) == {l[i] : i \in 1..Len(l)}
\* sorted(a) == sorted(b) for two lists of names
SameSorted(a, b) ==
    /\ Len(a) = Len(b)
    /\ \A n \in ItemsOf(a) \cup ItemsOf(b) :
          Cardinality({i \in 1..Len(a) : a[i] = n})
              = Cardinality({i \in 1..Len(b) : b[i] = n})

\* Field._expand for a name and for a list of names: the fundamental
\* dimensions, or the KeyError of a name that nothing defines
RECURSIVE Field_expand(_, _), Field_expand_list(_, _)
Field_expand(self, prop) ==
    IF DictHas(self.lattice, prop) THEN Returned(<<prop>>)
    ELSE IF prop \in {"dims", "dofs"} /\ self.field_type # PyNone
    THEN Returned(SelectSeq(self.axes, LAMBDA key : (key \in Dims) <=> (prop = "dims")))
    ELSE IF DictHas(Lattice_properties, prop)
    THEN Field_expand_list(self, DictGet(Lattice_properties, prop))
    ELSE IF DictHas(Field_field_types, prop)
    THEN Field_expand_list(self, DictGet(Field_field_types, prop))
    ELSE Failed("KeyError")
Field_expand_list(self, props) ==
    IF props = <<>> THEN Returned(<<>>)
    ELSE LET h == Field_expand(self, Head(props))
         IN  IF h.exc # "None" THEN h
             ELSE LET t == Field_expand_list(self, Tail(props))
                  IN  IF t.exc # "None" THEN t ELSE Returned(h.ret \o t.ret)
\* _expand(value) for a name or a list of names
Field__expand(self, value) ==
    IF value.tag = "list" THEN Field_expand_list(self, Names(value))
    ELSE Field_expand(self, value.s)

\* every name is a dimension
Field_dimensions_any(self) ==
    DictKeys(self.lattice) \cup DictKeys(Lattice_properties) \cup {"t"}

\* the function add of Field.dimensions, for a name and for a list
RECURSIVE Field_add(_, _), Field_add_list(_, _)
Field_add(lattice, key) ==
    {key} \cup
        (IF DictHas(lattice, key) THEN {}
         ELSE IF DictHas(Lattice_properties, key)
         THEN Field_add_list(lattice, DictGet(Lattice_properties, key))
         ELSE IF DictHas(Field_field_types, key)
         THEN Field_add_list(lattice, DictGet(Field_field_types, key))
         ELSE {})
Field_add_list(lattice, keys) ==
    IF keys = <<>> THEN {}
    ELSE Field_add(lattice, Head(keys)) \cup Field_add_list(lattice, Tail(keys))

\* Field.dimensions, as a set: the names add collects from field_type, and
\* the properties of the lattice that expand into names among them
Field_dimensions(self) ==
    LET dims == IF self.field_type.tag = "list"
                THEN Field_add_list(self.lattice, Names(self.field_type))
                ELSE IF self.field_type.tag = "str"
                THEN Field_add(self.lattice, self.field_type.s)
                ELSE {}
    IN  dims \cup {prop \in DictKeys(Lattice_properties) :
                      ItemsOf(Field_expand(self, prop).ret) \subseteq dims}

\* the setter of Field.lattice; no lattice is <<>>
Field_lattice_setter(self, value) ==
    IF self.lattice # <<>> THEN Left("AssertionError", self)
    ELSE Left("None", [self EXCEPT !.lattice = value])

\* is_known of the setter of Field.field_type
Field_is_known(self, value) ==
    LET known(key) == \/ DictHas(self.lattice, key)
                      \/ DictHas(Lattice_properties, key)
                      \/ DictHas(Field_field_types, key)
    IN  IF value.tag = "list" THEN \A key \in ItemsOf(Names(value)) : known(key)
        ELSE known(value.s)

\* the loop of the setter over _field_types, from the item at place i on:
\* the first type that expands into the names of target, else value
RECURSIVE Field_type_of(_, _, _, _)
Field_type_of(self, value, target, i) ==
    IF i > Len(Field_field_types) THEN value
    ELSE LET names == Field_expand(self, Field_field_types[i][1])
         IN  IF names.exc = "None" /\ SameSorted(names.ret, target)
             THEN PyStr(Field_field_types[i][1])
             ELSE Field_type_of(self, value, target, i + 1)

\* the setter of Field.field_type
Field_field_type_setter(self, value) ==
    IF self.field_type # PyNone THEN Left("AssertionError", self)
    ELSE IF ~Field_is_known(self, value) THEN Left("AssertionError", self)
    ELSE LET named == value.tag = "str" /\ DictHas(Field_field_types, value.s)
             target == Field__expand(self, value)
         IN  IF ~named /\ target.exc # "None" THEN Left(target.exc, self)
             ELSE LET v == IF named THEN value
                           ELSE Field_type_of(self, value, target.ret, 1)
                      axes == Field__expand(self, v)
                  IN  IF axes.exc # "None" THEN Left(axes.exc, self)
                      ELSE Left("None", [self EXCEPT !.axes = axes.ret,
                                                     !.field_type = v])

\* numpy.dtype(value), by the name of the type
np_dtype(value) ==
    CASE value = "float" -> "float64"
      [] value = "complex" -> "complex128"
      [] OTHER -> value

\* the setter of Field.dtype; no dtype is "None"
Field_dtype_setter(self, value) ==
    LET v == np_dtype(value)
    IN  IF ~(self.dtype = "None" \/ v = self.dtype) THEN Left("AssertionError", self)
        ELSE Left("None", [self EXCEPT !.dtype = v])

\* the setter of ArrayField.dtype
ArrayField_dtype_setter(self, value) ==
    IF np_dtype(value) # self.dtype
    THEN Left("None", [self EXCEPT !.dtype = np_dtype(value)])
    ELSE Left("None", self)

\* dict.update
RECURSIVE update(_, _)
update(d, e) ==
    IF e = <<>> THEN d ELSE update(DictSet(d, e[1][1], e[1][2]), Tail(e))

\* a name is never looked up among the labels
RECURSIVE unpack_no_labels(_, _, _), unpack_list_no_labels(_, _, _)
unpack_no_labels(labels, coords, acc) ==
    IF coords.tag = "list" THEN unpack_list_no_labels(labels, coords.l, acc)
    ELSE IF coords.tag = "dict" THEN Returned(update(acc.ret, coords.d))
    ELSE Failed("AssertionError")
unpack_list_no_labels(labels, l, acc) ==
    IF l = <<>> THEN acc
    ELSE LET r == unpack_no_labels(labels, Head(l), acc)
         IN  IF r.exc # "None" THEN r ELSE unpack_list_no_labels(labels, Tail(l), r)

\* the function unpack of the setter of Field.coords, acc the dict _coords
\* it has filled so far; unpack_list is its loop over a list
RECURSIVE unpack(_, _, _), unpack_list(_, _, _)
unpack(labels, coords, acc) ==
    IF coords.tag = "list" THEN unpack_list(labels, coords.l, acc)
    ELSE IF coords.tag = "str" /\ DictHas(labels, coords.s)
    THEN unpack(labels, PyDict(DictGet(labels, coords.s)), acc)
    ELSE IF coords.tag = "dict" THEN Returned(update(acc.ret, coords.d))
    ELSE Failed("AssertionError")
unpack_list(labels, l, acc) ==
    IF l = <<>> THEN acc
    ELSE LET r == unpack(labels, Head(l), acc)
         IN  IF r.exc # "None" THEN r ELSE unpack_list(labels, Tail(l), r)

\* utils.to_list for a value that is not a list
to_list(val) == PyList(<<val>>)

\* the loop of the setter over the dimensions a key expands into
RECURSIVE coords_dims(_, _, _)
coords_dims(dims, val, d) ==
    IF dims = <<>> THEN Returned(d)
    ELSE IF DictHas(d, Head(dims)) /\ DictGet(d, Head(dims)) # val
    THEN Failed("AssertionError")
    ELSE IF val.tag = "list" /\ val.l = <<>> THEN Failed("AssertionError")
    ELSE LET v == IF val.tag = "list" THEN val ELSE to_list(val)
         IN  coords_dims(Tail(dims), v, DictSet(d, Head(dims), v))

\* the loop of the setter over the items of the unpacked dict
RECURSIVE coords_items(_, _, _, _)
coords_items(self, dimensions, items, d) ==
    IF items = <<>> THEN Returned(d)
    ELSE IF items[1][1] \notin dimensions THEN Failed("AssertionError")
    ELSE LET dims == Field_expand(self, items[1][1])
         IN  IF dims.exc # "None" THEN Failed(dims.exc)
             ELSE LET r == coords_dims(dims.ret, items[1][2], d)
                  IN  IF r.exc # "None" THEN r
                      ELSE coords_items(self, dimensions, Tail(items), r.ret)

\* the fixed coordinates give way to the new ones
coords_fixed_replaced(old, d) == Returned(update(old, d))

\* the loop of the setter over the items of self.coords
RECURSIVE coords_fixed(_, _)
coords_fixed(old, d) ==
    IF old = <<>> THEN Returned(d)
    ELSE IF DictHas(d, old[1][1]) /\ DictGet(d, old[1][1]) # old[1][2]
    THEN Failed("AssertionError")
    ELSE coords_fixed(Tail(old), DictSet(d, old[1][1], old[1][2]))

\* the setter of Field.coords; the field of a Field that has none is "None"
Field_coords_setter(self, coords) ==
    IF self.field # "None" THEN Left("AssertionError", self)
    ELSE LET u == unpack(self.labels, coords, Returned(<<>>))
         IN  IF u.exc # "None" THEN Left(u.exc, self)
             ELSE LET c == coords_items(self, Field_dimensions(self), u.ret, <<>>)
                  IN  IF c.exc # "None" THEN Left(c.exc, self)
                      ELSE LET f == coords_fixed(self.coords, c.ret)
                           IN  IF f.exc # "None" THEN Left(f.exc, self)
                               ELSE Left("None", [self EXCEPT !.coords = f.ret])

\* Field.label(name, **coords)
Field_label(self, name, coords) ==
    IF \E key \in DictKeys(coords) : key \notin Field_dimensions(self)
    THEN Left("AssertionError", self)
    ELSE Left("None", [self EXCEPT !.labels = DictSet(@, name, coords)])

\* the setter of Field.field for a value that is a Delayed
Field_field_setter_delayed(self) == Left("None", [self EXCEPT !.field = "Delayed"])

\* a Field or an ArrayField before its constructor has assigned anything
NewField(cls) ==
    [fn |-> "attrs", done |-> TRUE, cls |-> cls, lattice |-> <<>>,
     field_type |-> PyNone, axes |-> <<>>, dtype |-> "None", coords |-> <<>>,
     labels |-> <<>>, field |-> "None"]

\* the values assigned to field_type and to dtype
FieldTypes ==
    { PyStr("vector"), PyStr("scalar"), NameList(<<"x">>), NameList(<<"dims">>),
      NameList(<<"y", "spin">>), PyStr("gauge_links") }
Dtypes == {"complex128", "float64", "float"}
\* the selections of an axis: one position, or a list of positions
Positions == {PyInt(0), PyList(<<PyInt(0)>>), PyList(<<PyInt(0), PyInt(1)>>)}
\* the name of the label and the coordinates labelled
LabelNames == {"origin"}
LabelCoords ==
    { << <<"x", PyInt(0)>>, <<"y", PyInt(0)>> >>,
      << <<"x", PyList(<<PyInt(0), PyInt(1)>>)>> >>,
      << <<"dims", PyInt(0)>> >>,
      << <<"x", PyInt(0)>>, <<"t", PyInt(0)>> >> }
\* the values assigned to coords
CoordsValues ==
    {PyDict(<< <<"x", p>> >>) : p \in Positions \cup {PyList(<<>>)}}
    \cup { PyDict(<< <<"spin", PyInt(0)>> >>), PyDict(<< <<"t", PyInt(0)>> >>),
           PyDict(<< <<"space", PyInt(0)>> >>),
           PyDict(<< <<"x", PyInt(0)>>, <<"t", PyInt(0)>> >>),
           PyStr("origin"), PyStr("nowhere"), PyInt(0),
           PyList(<<PyStr("origin"), PyDict(<< <<"spin", PyList(<<PyInt(0)>>)>> >>)>>) }

\* the last operation on the attributes
Assigned(op, key, value, exc) ==
    [op |-> op, key |-> key, value |-> value, was |-> "neither", exc |-> exc,
     ret |-> PyNone, snap |-> <<>>, re |-> FALSE]

\* Field(lattice=lattice, field_type=field_type, dtype=dtype), up to the
\* assignment of dtype; ArrayField(lattice=lattice, dtype=dtype) keeps the
\* lattice and the dtype in the same attributes
InitAttrs ==
    /\ tuning = FALSE
    /\ stack = <<>>
    /\ raise_not_tuned = "unset"
    /\ objs = <<>>
    /\ graph = NoGraph
    /\ trace = NoTrace
    /\ tunable_options = <<>>
    /\ tuned_options = <<>>
    /\ last = Assigned("__init__", "", PyNone, "None")
    /\ \E lattice \in {l \in Lattices : DictGet(l, "x") > 1}, dtype \in Dtypes :
          \/ \E field_type \in FieldTypes :
                LET l == Field_lattice_setter(NewField("Field"), lattice)
                    t == Field_field_type_setter(l.self, field_type)
                    d == Field_dtype_setter(t.self, dtype)
                IN  /\ t.exc = "None"
                    /\ call = d.self
          \/ call = [NewField("ArrayField") EXCEPT !.lattice = lattice,
                                                   !.dtype = np_dtype(dtype)]

\* self.lattice = value; an ArrayField has a property without a setter
AttrsSetLattice(value) ==
    LET r == IF call.cls = "Field" THEN Field_lattice_setter(call, value)
             ELSE Left("AttributeError", call)
    IN  /\ last' = Assigned("lattice.setter", "", PyDict(value), r.exc)
        /\ call' = r.self

\* self.field_type = value
AttrsSetFieldType(value) ==
    LET r == Field_field_type_setter(call, value)
    IN  /\ call.cls = "Field"
        /\ last' = Assigned("field_type.setter", "", value, r.exc)
        /\ call' = r.self

\* self.dtype = value
AttrsSetDtype(value) ==
    LET r == IF call.cls = "Field" THEN Field_dtype_setter(call, value)
             ELSE ArrayField_dtype_setter(call, value)
    IN  /\ last' = Assigned("dtype.setter", value, PyNone, r.exc)
        /\ call' = r.self

\* self.label(name, **coords)
AttrsLabel(name, coords) ==
    LET r == Field_label(call, name, coords)
    IN  /\ call.cls = "Field"
        /\ last' = Assigned("label", name, PyDict(coords), r.exc)
        /\ call' = r.self

\* self.coords = value
AttrsSetCoords(value) ==
    LET r == Field_coords_setter(call, value)
    IN  /\ call.cls = "Field"
        /\ last' = Assigned("coords.setter", "", value, r.exc)
        /\ call' = r.self

\* self.field = value for a Delayed
AttrsSetField ==
    LET r == Field_field_setter_delayed(call)
    IN  /\ call.cls = "Field"
        /\ last' = Assigned("field.setter", "", PyNone, r.exc)
        /\ call' = r.self

attrs_frozen == <<tunable_options, tuned_options, tuning, stack,
                  raise_not_tuned, objs, graph, trace>>

NextAttrs ==
    \/ \E value \in Lattices : AttrsSetLattice(value)
          /\ UNCHANGED attrs_frozen
    \/ \E value \in FieldTypes : AttrsSetFieldType(value)
          /\ UNCHANGED attrs_frozen
    \/ \E value \in Dtypes : AttrsSetDtype(value)
          /\ UNCHANGED attrs_frozen
    \/ \E name \in LabelNames, coords \in LabelCoords : AttrsLabel(name, coords)
          /\ UNCHANGED attrs_frozen
    \/ \E value \in CoordsValues : AttrsSetCoords(value)
          /\ UNCHANGED attrs_frozen
    \/ AttrsSetField
          /\ UNCHANGED attrs_frozen

SpecAttrs == InitAttrs /\ [][NextAttrs]_vars

\* ---------------------------------------------------------- properties
\* the dicts d and e agree on every name but key
SameExcept(d, e, key) ==
    \A k \in (DictKeys(d) \cup DictKeys(e)) \ {key} :
        /\ DictHas(d, k) /\ DictHas(e, k)
        /\ DictGet(d, k) = DictGet(e, k)

\* C1: in every reachable state no name is a key of both tunable_options
\* and tuned_options.
C1_Disjoint == DictKeys(tunable_options) \cap DictKeys(tuned_options) = {}

\* a write has moved a name to tuned_options while another name is tunable
C1_Witness ==
    /\ last.op = "setattr" /\ last.was = "tunable" /\ last.exc = "None"
    /\ DictHas(tuned_options, last.key)
    /\ tunable_options # <<>>

\* C2: monotonic resolution: a name in tuned_options with value v is, after
\* any step, still in tuned_options with value v and not in tunable_options.
C2_Monotonic ==
    [][\A k \in DictKeys(tuned_options) :
          /\ DictHas(tuned_options', k)
          /\ DictGet(tuned_options', k) = DictGet(tuned_options, k)
          /\ ~DictHas(tunable_options', k)]_vars

\* a tuned name has been written again, with another value than it holds
C2_Witness ==
    /\ last.op = "setattr" /\ last.was = "tuned"
    /\ DictHas(tuned_options, last.key)
    /\ DictGet(tuned_options, last.key) # last.value

\* C3: assigning a value v to a tunable name whose option has
\* compatible(v) false raises the incompatibility error (AssertionError)
\* and leaves tunable_options and tuned_options as they were.
C3_IncompatibleWriteRejected ==
    [][(/\ last'.op = "setattr"
        /\ DictHas(tunable_options, last'.key)
        /\ compatible(DictGet(tunable_options, last'.key), last'.value) = "False")
       => (/\ last'.exc = "AssertionError"
           /\ UNCHANGED <<tunable_options, tuned_options>>)]_vars

\* an incompatible value has been written to a tunable name
C3_Witness ==
    /\ last.op = "setattr" /\ last.was = "tunable" /\ last.exc = "AssertionError"
    /\ DictHas(tunable_options, last.key)
    /\ compatible(DictGet(tunable_options, last.key), last.value) = "False"

\* C4: an attribute write to a name in tuned_options raises for every
\* value, the value it holds included, and leaves both dicts unchanged.
C4_TunedWriteRaises ==
    [][(last'.op = "setattr" /\ DictHas(tuned_options, last'.key))
       => (/\ last'.exc = "AssertionError"
           /\ UNCHANGED <<tunable_options, tuned_options>>)]_vars

\* a tuned name has been written with the value it holds
C4_Witness ==
    /\ last.op = "setattr" /\ last.was = "tuned" /\ last.exc = "AssertionError"
    /\ DictHas(tuned_options, last.key)
    /\ DictGet(tuned_options, last.key) = last.value

\* C5: an attribute write of a compatible value v to a tunable name moves
\* that name in one step: after it the name is not in tunable_options, it
\* is in tuned_options with value v, and every other entry of both dicts is
\* unchanged.
C5_CompatibleWriteMoves ==
    [][(/\ last'.op = "setattr"
        /\ DictHas(tunable_options, last'.key)
        /\ compatible(DictGet(tunable_options, last'.key), last'.value) = "True")
       => (/\ last'.exc = "None"
           /\ ~DictHas(tunable_options', last'.key)
           /\ DictHas(tuned_options', last'.key)
           /\ DictGet(tuned_options', last'.key) = last'.value
           /\ SameExcept(tunable_options, tunable_options', last'.key)
           /\ SameExcept(tuned_options, tuned_options', last'.key))]_vars

\* a compatible value has been written to a tunable name while the other
\* name was registered too
C5_Witness ==
    /\ last.op = "setattr" /\ last.was = "tunable" /\ last.exc = "None"
    /\ DictHas(tuned_options, last.key)
    /\ DictGet(tuned_options, last.key) = last.value
    /\ DictKeys(tunable_options) \cup DictKeys(tuned_options) = Keys

\* C6: tune(name) on a name in tuned_options returns the stored value and
\* changes neither dict nor the tuning flag, every time it is called.
C6_TuneTunedIsNoop ==
    [][(last'.op = "tune" /\ DictHas(tuned_options, last'.key))
       => (/\ last'.exc = "None"
           /\ last'.ret = DictGet(tuned_options, last'.key)
           /\ UNCHANGED <<tunable_options, tuned_options, tuning>>)]_vars

\* tune(name) has returned the value of a tuned name, the flag being down
C6_Witness ==
    /\ last.op = "tune" /\ last.was = "tuned" /\ last.exc = "None"
    /\ last.ret = DictGet(tuned_options, last.key)
    /\ ~tuning

\* C7: tune() with no name and no callback resolves every name that was
\* tunable when it was called: it returns, tunable_options is then empty,
\* tuned is true, and each such name is in tuned_options with the value of
\* its own option's get().  (Stated for the calls during which no get()
\* makes a tune request of its own.)
C7_TuneAllResolvesEveryName ==
    (last.op = "tune_all" /\ last.value = PyNone /\ ~last.re)
    => (/\ last.exc = "None"
        /\ tunable_options = <<>>
        /\ tuned
        /\ \A i \in 1..Len(last.snap) :
              /\ DictHas(tuned_options, last.snap[i][1])
              /\ DictGet(tuned_options, last.snap[i][1]) = get(last.snap[i][2]))

\* C8: tune(name, callback=cb) on a tunable name, cb returning a value the
\* option finds compatible, ends with the name in tuned_options with the
\* value cb returned.
C8_TuneWithCallbackStoresValue ==
    (/\ last.op = "tune" /\ last.value # PyNone /\ last.was = "tunable"
     /\ DictHas(tunable_options, last.key)
        => compatible(DictGet(tunable_options, last.key), last.value) = "True")
    => (/\ last.exc = "None"
        /\ DictHas(tuned_options, last.key)
        /\ DictGet(tuned_options, last.key) = last.value)

\* C9: while a resolution of the object is in progress, a tune request made
\* from inside it is rejected and not executed: no second resolution of the
\* object is ever in progress at the same time.
C9_ReentrantTuneRejected == Depth <= 1

\* C10: add_tunable_option(name, x) fails when name is a key of
\* tunable_options or of tuned_options, leaving both dicts unchanged;
\* otherwise it adds name to tunable_options only.
C10_AddTunableOption ==
    [][last'.op = "add_tunable_option"
       => IF DictHas(tunable_options, last'.key) \/ DictHas(tuned_options, last'.key)
          THEN /\ last'.exc = "AssertionError"
               /\ UNCHANGED <<tunable_options, tuned_options>>
          ELSE /\ last'.exc = "None"
               /\ DictHas(tunable_options', last'.key)
               /\ SameExcept(tunable_options, tunable_options', last'.key)
               /\ tuned_options' = tuned_options]_vars

\* add_tunable_option has been refused for a name that is tuned
C10_Witness ==
    /\ last.op = "add_tunable_option" /\ last.was = "tuned"
    /\ last.exc = "AssertionError"
    /\ tunable_options # <<>>

\* C11: add_tuned_option(name, v) on a name that is already tuned raises
\* and changes nothing; on a tunable name it ends as the attribute write
\* name = v does (an incompatible v is rejected and the name stays
\* tunable, a compatible v moves the name); on a name that is in neither
\* mapping it adds the name to tuned_options with the value v.
C11_AddTunedOption ==
    [][last'.op = "add_tuned_option" =>
        LET key == last'.key
            v == last'.value
            w == setattr(tunable_options, tuned_options, key, v)
        IN  CASE last'.was = "tuned" ->
                   /\ last'.exc = "AssertionError"
                   /\ UNCHANGED <<tunable_options, tuned_options>>
              [] last'.was = "tunable" ->
                   /\ last'.exc = w.exc
                   /\ tunable_options' = w.tunable_d
                   /\ tuned_options' = w.tuned_d
                   /\ compatible(DictGet(tunable_options, key), v) # "True"
                        => /\ last'.exc # "None"
                           /\ DictHas(tunable_options', key)
                           /\ UNCHANGED <<tunable_options, tuned_options>>
              [] OTHER ->
                   /\ last'.exc = "None"
                   /\ UNCHANGED tunable_options
                   /\ DictHas(tuned_options', key)
                   /\ DictGet(tuned_options', key) = v
                   /\ SameExcept(tuned_options, tuned_options', key)]_vars

\* add_tuned_option has been refused an incompatible value for a tunable
\* name, which is tunable still
C11_Witness ==
    /\ last.op = "add_tuned_option"
    /\ last.was = "tunable"
    /\ last.exc = "AssertionError"
    /\ DictHas(tunable_options, last.key)
    /\ compatible(DictGet(tunable_options, last.key), last.value) = "False"

\* C12: outside a property getter, the read of a name that is tunable
\* returns the deferred placeholder of the name and raises nothing, also on
\* an object on which no tunable_property was evaluated yet; the read of a
\* tuned name returns the stored value; the read of a name that is in
\* neither mapping raises AttributeError.
C12_DeferredRead ==
    last.op = "getattr" =>
        CASE last.was = "tunable" ->
               last.exc = "None" /\ last.ret = PyDelayed(last.key)
          [] last.was = "tuned" ->
               last.exc = "None" /\ last.ret = DictGet(tuned_options, last.key)
          [] OTHER -> last.exc = "AttributeError"

\* the Tunables a node of the graph holds, at any depth
RECURSIVE RefsOf(_)
RefsOf(obj) ==
    IF obj.kind = "Tunable" THEN {obj.ref}
    ELSE UNION {RefsOf(obj.items[i]) : i \in 1..Len(obj.items)}
GraphRefs == UNION {RefsOf(graph.dask[i][2]) : i \in 1..Len(graph.dask)}
\* the place of the first event ev of the call made last, 0 if there is none
FirstEv(ev) ==
    IF \E i \in 1..Len(trace.events) : trace.events[i].ev = ev
    THEN CHOOSE i \in 1..Len(trace.events) :
            /\ trace.events[i].ev = ev
            /\ \A j \in 1..(i - 1) : trace.events[j].ev # ev
    ELSE 0

\* C13: when Delayed.tune(**kwargs) has returned, every Tunable in the
\* dask mapping of the graph, directly or nested in a list or tuple, has
\* no tunable option left, and Delayed.tunable is false.
C13_DelayedTuneTunesAll ==
    (trace.op = "Delayed.tune" /\ trace.exc = "None") =>
        /\ \A i \in GraphRefs : objs[i].tunable_options = <<>>
        /\ ~Delayed_tunable

\* C14: a second Delayed.tune right after a first that returned resolves
\* nothing and changes no mapping of a Tunable, every Tunable of the graph
\* being tuned after the first.
C14_DelayedTuneIdempotent ==
    [][(/\ trace.op = "Delayed.tune" /\ trace.exc = "None"
        /\ trace'.op = "Delayed.tune")
       => (/\ \A i \in GraphRefs : objs[i].tunable_options = <<>>
           /\ FirstEv("resolve")' = 0
           /\ objs' = objs)]_vars

\* C15: in every Delayed.compute with default arguments and every
\* Field.compute that hands the graph to the runtime, the tuning step has
\* run before the hand-off, and at the hand-off no Tunable of the graph has
\* a tunable option.
C15_TuneBeforeCompute ==
    (trace.op \in {"Delayed.compute", "Field.compute"} /\ FirstEv("handoff") > 0) =>
        /\ \/ (FirstEv("tune") > 0 /\ FirstEv("tune") < FirstEv("handoff"))
           \/ (FirstEv("obj.tune") > 0 /\ FirstEv("obj.tune") < FirstEv("handoff"))
        /\ \A i \in GraphRefs : objs[i].tunable_options = <<>>

C17_IsTunable ==
    (call.fn = "is_tunable" /\ call.done) =>
        (call.out <=> \E i \in RefsOf(call.obj) : objs[i].tunable_options # <<>>)

\* is_tunable has found the tunable Tunable that is the last item of a list
\* inside a list, behind items that are not tunable
C17_Witness ==
    /\ call.fn = "is_tunable" /\ call.done /\ call.out
    /\ call.obj = ListOf(<<TunableRef(2), ListOf(<<Other, TunableRef(1)>>)>>)
    /\ objs[1].tunable_options # <<>> /\ objs[2].tunable_options = <<>>

\* v is labels in some order: a one-to-one renumbering of the places maps
\* one to the other
Rearranged(labels, v) ==
    /\ Len(labels) = Len(v)
    /\ \E p \in [1..Len(v) -> 1..Len(v)] :
          /\ \A i, j \in 1..Len(v) : p[i] = p[j] => i = j
          /\ \A i \in 1..Len(v) : v[i] = labels[p[i]]

\* C18: Permutation(labels).compatible(v) is true exactly when v has the
\* length of labels and the same labels with the same multiplicities, for
\* all lists of labels, with or without repeats.
C18_PermutationCompatible ==
    (call.fn = "Permutation.compatible" /\ call.done) =>
        ((call.out = "True") <=> Rearranged(call.self.value.l, call.value.l))

\* a list of the same length and the same set of labels was refused for
\* its multiplicities
C18_Witness ==
    /\ call.fn = "Permutation.compatible" /\ call.done /\ call.out = "False"
    /\ call.self.value = PyList(<<PyStr("x"), PyStr("x"), PyStr("y")>>)
    /\ call.value = PyList(<<PyStr("y"), PyStr("x"), PyStr("y")>>)

\* a divides b evenly, b positive
Divides(a, b) == \E q \in (0 - b)..b : q * a = b

\* C19: ChunksOf(bound).compatible(c) is true exactly when every axis c
\* names is an axis of bound whose size the size in c divides evenly and
\* does not exceed; the axes of bound that c does not name do not matter.
C19_ChunksOfCompatible ==
    (call.fn = "ChunksOf.compatible" /\ call.done) =>
        LET bound == call.self.value.d
            c == call.value.d
        IN  (call.out = "True") <=>
                \A axis \in DictKeys(c) :
                    /\ DictHas(bound, axis)
                    /\ DictGet(c, axis) <= DictGet(bound, axis)
                    /\ Divides(DictGet(c, axis), DictGet(bound, axis))

\* chunks that name one of the two axes of the bound were accepted, the size
\* of the other axis being one they could not divide
C19_Witness ==
    /\ call.fn = "ChunksOf.compatible" /\ call.done /\ call.out = "True"
    /\ call.self.value = PyDict(<<<<"x", 4>>, <<"y", 3>>>>)
    /\ call.value = PyDict(<<<<"x", 2>>>>)

\* C20: Permutation(value) and Choice(value) fail when value is an empty
\* list.
C20_EmptyDomainRejected ==
    (/\ call.fn = "__init__" /\ call.done
     /\ call.cls \in {"Permutation", "Choice"}
     /\ call.value = PyList(<<>>))
        => call.out = "AssertionError"

\* C21: a call that ends with an exception (a failed compatibility check
\* among them) changes neither mapping in the step that raises: what
\* earlier writes and earlier steps of the same tune() have put in
\* tuned_options stays there, the failing name stays in tunable_options
\* with its option, and when tune() ends so every name that was tunable at
\* its start is either tuned or tunable with the option it had.
C21_NoRollback ==
    [][last'.exc # "None" =>
        /\ UNCHANGED <<tunable_options, tuned_options>>
        /\ last'.op = "tune_all" =>
              \A i \in 1..Len(last'.snap) :
                  LET k == last'.snap[i][1]
                  IN  \/ DictHas(tuned_options', k)
                      \/ /\ DictHas(tunable_options', k)
                         /\ DictGet(tunable_options', k) = last'.snap[i][2]]_vars

\* tune() has failed on its second name: the first is tuned with the value
\* of its get(), the second is tunable with its option
C21_Witness ==
    /\ last.op = "tune_all" /\ last.exc # "None" /\ ~last.re
    /\ Len(last.snap) = 2
    /\ DictHas(tuned_options, last.snap[1][1])
    /\ DictGet(tuned_options, last.snap[1][1]) = get(last.snap[1][2])
    /\ DictHas(tunable_options, last.snap[2][1])
    /\ DictGet(tunable_options, last.snap[2][1]) = last.snap[2][2]

C23_NotTunedIsCaught ==
    [][/\ last'.exc # "NotTuned"
       /\ last'.op \in {"property", "property.body"} => raise_not_tuned' = "False"
       /\ (last'.op = "property" /\ DictHas(tunable_options, last'.key)) =>
             (last'.exc = "None" /\ last'.ret = PyDelayed("getter"))
       /\ last'.op = "getattr" => raise_not_tuned' # "True"]_vars

\* a getter has met a tunable name and returned the placeholder, and one
\* has ended with AttributeError; the flag is down
C23_Witness ==
    /\ last.op = "property"
    /\ last.was = "tunable"
    /\ last.exc = "None"
    /\ last.ret = PyDelayed("getter")
    /\ raise_not_tuned = "False"

\* the product of the numbers of a list
RECURSIVE Product(_)
Product(l) == IF l = <<>> THEN 1 ELSE Head(l) * Product(Tail(l))

\* C24: shape has one entry for every axis of the Field and for every index
\* of the BaseField; the size of an entry is the number of coordinates
\* selected when coords restricts the axis or index, and the extent the
\* lattice gives the axis (the index without its occurrence suffix)
\* otherwise; size is the product of the sizes in shape.
C24_ShapeAndSize ==
    LET shape == Field_shape(call.lattice, call.coords, call.axes)
        bshape == BaseField_shape(call.lattice, call.icoords, call.axes)
        ind == indeces(call.axes).ret
    IN  /\ Len(shape) = Len(call.axes) /\ Len(bshape) = Len(call.axes)
        /\ \A i \in 1..Len(call.axes) :
              /\ shape[i][1] = call.axes[i]
              /\ shape[i][2] = IF DictHas(call.coords, call.axes[i])
                               THEN Len(DictGet(call.coords, call.axes[i]))
                               ELSE DictGet(call.lattice, call.axes[i])
              /\ bshape[i][1] = ind[i]
              /\ bshape[i][2] = IF DictHas(call.icoords, ind[i])
                                THEN Len(DictGet(call.icoords, ind[i]))
                                ELSE DictGet(call.lattice, call.axes[i])
        /\ Field_size(shape, 1) = Product(Column(shape, 2))
        /\ (call.axes = <<"x", "y">> /\ call.coords = << <<"x", <<0, 1>> >> >>) =>
              (shape = << <<"x", 2>>, <<"y", 2>> >> /\ Field_size(shape, 1) = 4)

\* a Field with a repeated axis and a restricted one has been acted on
C24_Witness ==
    /\ call.axes = <<"x", "spin", "spin">>
    /\ call.coords = << <<"x", <<0, 1>> >> >>
    /\ DictGet(call.lattice, "x") = MaxSize
    /\ last.op # "__init__"
    /\ Field_size(Field_shape(call.lattice, call.coords, call.axes), 1) = 18
    /\ BaseField_shape(call.lattice, call.icoords, call.axes)
          = << <<"x", 2>>, <<"spin_0", 3>>, <<"spin_1", 3>> >>

\* C25: indeces has one entry for every entry of axes and no entry twice;
\* an axis that occurs once is its own index, the k-th occurrence (from 0)
\* of an axis a that occurs more than once has the index a_k, and the index
\* at place i without its "_<digits>" suffix is the axis at place i.
C25_Indeces ==
    LET r == indeces(call.axes)
        ind == r.ret
        n == Len(call.axes)
        count(a) == Cardinality({j \in 1..n : call.axes[j] = a})
        before(i) == Cardinality({j \in 1..(i - 1) : call.axes[j] = call.axes[i]})
    IN  /\ r.exc = "None"
        /\ Len(ind) = n
        /\ \A i, j \in 1..n : ind[i] = ind[j] => i = j
        /\ \A i \in 1..n :
              /\ count(call.axes[i]) = 1 => ind[i] = call.axes[i]
              /\ count(call.axes[i]) > 1 =>
                    \E k \in 0..(n - 1) :
                       /\ k = before(i)
                       /\ ind[i] = call.axes[i] \o "_" \o Digits[k + 1]
              /\ re_sub(ind[i]) = call.axes[i]
        /\ call.axes = <<"spin", "x", "spin">> => ind = <<"spin_0", "x", "spin_1">>

\* the indeces of a Field with an axis that occurs three times
C25_Witness ==
    /\ call.fn = "Field"
    /\ call.axes = <<"spin", "spin", "spin">>
    /\ indeces(call.axes).ret = <<"spin_0", "spin_1", "spin_2">>
    /\ BaseField_shape(call.lattice, call.icoords, call.axes)[3] = <<"spin_2", 3>>

\* how often v is an item of the list l
Times(l, v) == Cardinality({i \in 1..Len(l) : l[i] = v})

\* C26: once axes_order is resolved, field_shape is a tuple with one entry
\* for every axis; its i-th entry is the size shape gives the i-th axis of
\* axes_order, every entry of shape is used once (the sizes of field_shape
\* are those of shape, as often), and their product is size.
C26_FieldShape ==
    DictHas(tuned_options, "axes_order") =>
        LET fs == Field_field_shape(tuned_options, Shape)
            axes_order == Names(DictGet(tuned_options, "axes_order"))
            sizes == Column(Shape, 2)
        IN  /\ fs.exc = "None" /\ ~fs.delayed
            /\ Len(fs.ret) = Len(call.axes)
            /\ \A i \in 1..Len(fs.ret) :
                  \E j \in 1..Len(Shape) :
                     Shape[j][1] = axes_order[i] /\ fs.ret[i] = Shape[j][2]
            /\ \A i \in 1..Len(sizes) : Times(fs.ret, sizes[i]) = Times(sizes, sizes[i])
            /\ Product(fs.ret) = Field_size(Shape, 1)

\* axes_order has been written with the axes from the last to the first
C26_Witness ==
    /\ last.op = "setattr" /\ last.key = "axes_order" /\ last.exc = "None"
    /\ call.axes = <<"x", "y", "spin">>
    /\ call.coords = <<>>
    /\ DictGet(call.lattice, "x") = MaxSize
    /\ DictGet(tuned_options, "axes_order") = NameList(<<"spin", "y", "x">>)
    /\ Field_field_shape(tuned_options, Shape).ret = <<3, 2, MaxSize>>

\* the chunk sizes a value of chunks names, as a dict
Named(chunks) ==
    CASE chunks.tag = "pairs" -> DictOf(chunks.d, <<>>)
      [] chunks.tag = "dict" -> chunks.d
      [] OTHER -> <<>>

\* C27 as stated: once axes_order and chunks are resolved, field_chunks is
\* a tuple for every Field, also when chunks names no axis; it has the
\* length of field_shape, its i-th entry is the chunk size of the i-th axis
\* of axes_order when chunks names the axis and the size of the axis
\* otherwise, and it divides the i-th entry of field_shape.
C27_FieldChunksDefined ==
    (DictHas(tuned_options, "axes_order") /\ DictHas(tuned_options, "chunks")) =>
        LET fc == Field_field_chunks(tuned_options, Shape)
            fs == Field_field_shape(tuned_options, Shape)
            axes_order == Names(DictGet(tuned_options, "axes_order"))
            named == Named(DictGet(tuned_options, "chunks"))
        IN  /\ fc.exc = "None" /\ ~fc.delayed
            /\ Len(fc.ret) = Len(fs.ret)
            /\ \A i \in 1..Len(fc.ret) :
                  /\ fc.ret[i] = IF DictHas(named, axes_order[i])
                                 THEN DictGet(named, axes_order[i]) ELSE fs.ret[i]
                  /\ Divides(fc.ret[i], fs.ret[i])

\* the axes of the Field that are dimensions of the lattice and have a size
\* above 1 in shape, and the size shape gives an axis
ChunkedAxes == {Shape[i][1] : i \in {j \in 1..Len(Shape) : Shape[j][2] > 1 /\ Shape[j][1] \in Dims}}
SizeOf(axis) == Shape[Index(Column(Shape, 1), axis)][2]

\* C28 as stated: axes_order and chunks are each in exactly one of the two
\* dicts; the option of axes_order is the Permutation of axes, and the bound
\* of the option of chunks has every axis whose size in shape is above 1,
\* with that size.
C28_ChunksCoverEveryAxis ==
    /\ \A key \in {"axes_order", "chunks"} :
          DictHas(tunable_options, key) # DictHas(tuned_options, key)
    /\ DictHas(tunable_options, "axes_order") =>
          DictGet(tunable_options, "axes_order") = Option("Permutation", NameList(call.axes))
    /\ DictHas(tunable_options, "chunks") =>
          LET opt == DictGet(tunable_options, "chunks")
          IN  /\ opt.cls = "ChunksOf"
              /\ \A i \in 1..Len(Shape) :
                    Shape[i][2] > 1 =>
                       /\ DictHas(opt.value.d, Shape[i][1])
                       /\ DictGet(opt.value.d, Shape[i][1]) = Shape[i][2]

\* C28: axes_order and chunks are each in exactly one of the two dicts; the
\* option of axes_order is the Permutation of axes, and the bound of the
\* option of chunks has the axes that are dimensions of the lattice and have
\* a size above 1 in shape, with that size, and no other axis.  The
\* constructor leaves axes_order resolved to axes when the Field has one
\* distinct axis, and chunks resolved to the empty list when no dimension
\* has a size above 1.
C28_ChunksCoverDims ==
    /\ \A key \in {"axes_order", "chunks"} :
          DictHas(tunable_options, key) # DictHas(tuned_options, key)
    /\ DictHas(tunable_options, "axes_order") =>
          DictGet(tunable_options, "axes_order") = Option("Permutation", NameList(call.axes))
    /\ DictHas(tunable_options, "chunks") =>
          LET opt == DictGet(tunable_options, "chunks")
          IN  /\ opt.cls = "ChunksOf"
              /\ DictKeys(opt.value.d) = ChunkedAxes
              /\ \A axis \in ChunkedAxes : DictGet(opt.value.d, axis) = SizeOf(axis)
    /\ last.op = "__init__" =>
          /\ last.exc = "None"
          /\ DictHas(tuned_options, "axes_order") <=>
                Cardinality({call.axes[i] : i \in 1..Len(call.axes)}) = 1
          /\ DictHas(tuned_options, "axes_order") =>
                DictGet(tuned_options, "axes_order") = NameList(call.axes)
          /\ DictHas(tuned_options, "chunks") <=> ChunkedAxes = {}
          /\ DictHas(tuned_options, "chunks") =>
                DictGet(tuned_options, "chunks") = PyList(<<>>)

\* a Field with a dimension and a degree of freedom, just constructed
C28_Witness ==
    /\ last.op = "__init__"
    /\ call.axes = <<"x", "spin">>
    /\ call.coords = <<>>
    /\ DictGet(call.lattice, "x") = MaxSize
    /\ DictHas(tunable_options, "axes_order")
    /\ DictGet(tunable_options, "chunks") = Option("ChunksOf", PyDict(<< <<"x", MaxSize>> >>))

\* C29: an assignment of an array to the field of a Field whose axes_order
\* is unresolved, or whose field_shape is not the shape of the array, ends
\* with an exception; an assignment that ends with an exception leaves the
\* stored array and the two dicts of options as they were; an assignment
\* that is accepted has an array of exactly the field_shape.  A NumpyBackend
\* is initialized with an array under the same two conditions only.
C29_ShapeIsValidated ==
    [][LET value == last'.value
           fs == Field_field_shape(tuned_options, Shape)
           matches == ~fs.delayed /\ fs.exc = "None" /\ fs.ret = value.shape
       IN  /\ last'.op = "field.setter" =>
                 /\ ~matches => last'.exc # "None"
                 /\ last'.exc # "None" =>
                       UNCHANGED <<tunable_options, tuned_options, call>>
                 /\ last'.exc = "None" => (matches /\ call'.field.shape = fs.ret)
           /\ last'.op = "initialize" =>
                 /\ last'.exc = "None" <=> matches
                 /\ UNCHANGED <<tunable_options, tuned_options, call>>]_vars

\* an array of another shape has been refused by a Field that holds one
C29_Witness ==
    /\ last.op = "field.setter" /\ last.exc = "AssertionError"
    /\ DictHas(tuned_options, "axes_order")
    /\ call.field # NoArray
    /\ last.value.shape # call.field.shape
    /\ Len(call.axes) > 1

\* C30 as stated: an array with the shape of field_shape is accepted by
\* every Field; while chunks is unresolved the assignment resolves chunks
\* to the chunk size the array has on every axis and stores the array as it
\* is, and once chunks is resolved it stores the array in the chunks of
\* field_chunks and leaves the options as they were.
C30_ChunksBackFilled ==
    [][LET value == last'.value
           fs == Field_field_shape(tuned_options, Shape)
           fc == Field_field_chunks(tuned_options, Shape)
       IN  (last'.op = "field.setter" /\ ~fs.delayed /\ fs.ret = value.shape) =>
              /\ last'.exc = "None"
              /\ IF ~DictHas(tuned_options, "chunks")
                 THEN /\ call'.field = value
                      /\ DictHas(tuned_options', "chunks")
                      /\ LET named == Named(DictGet(tuned_options', "chunks"))
                             axes_order == Names(DictGet(tuned_options, "axes_order"))
                         IN  \A i \in 1..Len(axes_order) :
                                /\ DictHas(named, axes_order[i])
                                /\ DictGet(named, axes_order[i]) = value.chunksize[i]
                 ELSE /\ fc.exc = "None"
                      /\ call'.field = Array(value.shape, fc.ret)
                      /\ UNCHANGED <<tunable_options, tuned_options>>]_vars

\* C35 as stated: every option accepts its own default, compatible(get())
\* is true for a TunableOption, a Permutation, a Choice and a ChunksOf with
\* positive bounds, and tune(name) without callback resolves the name to
\* the default without failing the check.
C35_DefaultIsCompatible ==
    (call.fn = "compatible(get())" /\ call.done) =>
        /\ call.out = "True"
        /\ call.tune.exc = "None"
        /\ call.tune.obj.tuned_options = << <<"chunks", get(call.self)>> >>

\* C36 as stated: the tuning flag is true only while a tune call is in
\* progress; in every state in which no tune call is executing, whether the
\* last one returned or raised, tuning is false.
C36_TuningOnlyWhileTuning == (stack = <<>>) => (tuning = FALSE)

\* C37 as stated: inside the function of a tunable_property every read of a
\* name that is tunable still raises NotTuned, also after the function has
\* evaluated another tunable_property of the object.  A getter whose
\* function ends with a step about a tunable name and leaves no other
\* exception has then met NotTuned, in its own function or in that of the
\* property evaluated last, and returns the delayed call of a getter, never
\* the placeholder of a deferred read.
C37_ReadsStayForbidden ==
    [][(/\ last'.op \in {"property", "property.body"}
        /\ DictHas(tunable_options, last'.key)
        /\ last'.exc = "None") => last'.ret = PyDelayed("getter")]_vars

\* C38 as stated: for a bound with positive sizes, ChunksOf(bound)
\* .compatible(c) returns False, and does not raise, whenever c gives an axis
\* a size that is zero or negative.
C38_ChunkSizesArePositive ==
    (/\ call.fn = "ChunksOf.compatible" /\ call.done
     /\ \A axis \in DictKeys(call.self.value.d) : DictGet(call.self.value.d, axis) > 0
     /\ \E axis \in DictKeys(call.value.d) : DictGet(call.value.d, axis) <= 0)
        => call.out = "False"

\* C31 as stated: once lattice, field_type and dtype of a Field are set, an
\* assignment to one of them leaves all three as they were, and it raises
\* when the value assigned differs from the one held; no write to dtype
\* changes the dtype of the field.
C31_AttributesAreFixed ==
    [][(last'.op \in {"lattice.setter", "field_type.setter", "dtype.setter"}) =>
          /\ call'.lattice = call.lattice
          /\ call'.field_type = call.field_type
          /\ call'.dtype = call.dtype
          /\ (\/ last'.op = "lattice.setter" /\ last'.value.d # call.lattice
              \/ last'.op = "field_type.setter" /\ last'.value # call.field_type
              \/ last'.op = "dtype.setter" /\ np_dtype(last'.key) # call.dtype)
                => last'.exc # "None"]_vars

\* C32: while the field of a Field is not None, an assignment to coords
\* raises and leaves coords as it was; and no step ever takes an axis out
\* of coords or gives an axis of coords another selection: coords only
\* grows.
C32_CoordsImmutable ==
    [][/\ (last'.op = "coords.setter" /\ call.field # "None") =>
              (last'.exc # "None" /\ call'.coords = call.coords)
       /\ \A axis \in DictKeys(call.coords) :
              /\ DictHas(call'.coords, axis)
              /\ DictGet(call'.coords, axis) = DictGet(call.coords, axis)]_vars

\* coords grew from x to x and spin, the field was assigned, and then
\* another selection of x was refused
C32_Witness ==
    /\ last.op = "coords.setter" /\ last.exc = "AssertionError"
    /\ last.value = PyDict(<< <<"x", PyList(<<PyInt(0), PyInt(1)>>)>> >>)
    /\ call.field = "Delayed"
    /\ call.coords = << <<"x", PyList(<<PyInt(0)>>)>>, <<"spin", PyList(<<PyInt(0)>>)>> >>

\* the keys an assigned value brings to coords: those of its dicts and of
\* the labels it names
RECURSIVE KeysNamed(_, _)
KeysNamed(labels, value) ==
    IF value.tag = "dict" THEN DictKeys(value.d)
    ELSE IF value.tag = "list"
    THEN UNION {KeysNamed(labels, value.l[i]) : i \in 1..Len(value.l)}
    ELSE IF value.tag = "str" /\ DictHas(labels, value.s)
    THEN DictKeys(DictGet(labels, value.s))
    ELSE {}

\* C33: an assignment to coords and a call of label with a key that is not
\* in dimensions raise and leave coords and labels as they were; after an
\* assignment to coords that succeeded every key of coords is an axis of the
\* Field with an extent in the lattice.
C33_KeysInDimensions ==
    [][/\ (/\ last'.op \in {"coords.setter", "label"}
           /\ \E key \in KeysNamed(call.labels, last'.value) :
                  key \notin Field_dimensions(call)) =>
              /\ last'.exc # "None"
              /\ call'.coords = call.coords
              /\ call'.labels = call.labels
       /\ (last'.op = "coords.setter" /\ last'.exc = "None") =>
              \A key \in DictKeys(call'.coords) :
                  /\ key \in ItemsOf(call'.axes)
                  /\ DictHas(call'.lattice, key)]_vars

\* a Field over y and spin, with spin fixed, was assigned a position on x,
\* an axis of the lattice that the Field does not have
C33_Witness ==
    /\ last.op = "coords.setter" /\ last.exc = "AssertionError"
    /\ last.value = PyDict(<< <<"x", PyInt(0)>> >>)
    /\ call.field = "None"
    /\ call.axes = <<"y", "spin">>
    /\ "x" \notin Field_dimensions(call)
    /\ DictKeys(call.coords) = {"spin"}

\* an assigned value with the mapping of a label in the place of its name,
\* and whether the value names a label at all
RECURSIVE Substituted(_, _)
Substituted(labels, value) ==
    IF value.tag = "str" /\ DictHas(labels, value.s)
    THEN PyDict(DictGet(labels, value.s))
    ELSE IF value.tag = "list"
    THEN PyList([i \in 1..Len(value.l) |-> Substituted(labels, value.l[i])])
    ELSE value
RECURSIVE NamesLabel(_, _)
NamesLabel(labels, value) ==
    \/ value.tag = "str" /\ DictHas(labels, value.s)
    \/ value.tag = "list" /\ \E i \in 1..Len(value.l) : NamesLabel(labels, value.l[i])

\* C34: assigning to coords the name of a label, alone or in a list with
\* dicts, does what assigning the mapping stored under the name does: it
\* raises the same or leaves the same coords; every selection it leaves is a
\* list, a scalar of the label having become the list of that one position,
\* so that the label origin of x=0, y=0 gives coords == {x: [0], y: [0]}.
C34_LabelApplication ==
    [][(last'.op = "coords.setter" /\ NamesLabel(call.labels, last'.value)) =>
          LET direct == Field_coords_setter(call, Substituted(call.labels, last'.value))
              stored == DictGet(call.labels, last'.value.s)
          IN  /\ last'.exc = direct.exc
              /\ DictEq(call'.coords, direct.self.coords)
              /\ \A key \in DictKeys(call'.coords) : DictGet(call'.coords, key).tag = "list"
              /\ (last'.exc = "None" /\ last'.value.tag = "str") =>
                    \A key \in DictKeys(stored) :
                        (DictHas(call.lattice, key) /\ DictGet(stored, key).tag = "int") =>
                            /\ DictHas(call'.coords, key)
                            /\ DictGet(call'.coords, key) = PyList(<<DictGet(stored, key)>>)
              /\ (/\ last'.exc = "None" /\ last'.value = PyStr("origin")
                  /\ call.coords = <<>>
                  /\ DictEq(stored, << <<"x", PyInt(0)>>, <<"y", PyInt(0)>> >>)) =>
                    DictEq(call'.coords, << <<"x", PyList(<<PyInt(0)>>)>>,
                                            <<"y", PyList(<<PyInt(0)>>)>> >>)]_vars

\* label("origin", x=0, y=0) and then coords = "origin" on a Field with no
\* coordinate fixed
C34_Witness ==
    /\ last.op = "coords.setter" /\ last.exc = "None"
    /\ last.value = PyStr("origin")
    /\ DictHas(call.labels, "origin")
    /\ DictGet(call.labels, "origin") = << <<"x", PyInt(0)>>, <<"y", PyInt(0)>> >>
    /\ call.coords = << <<"x", PyList(<<PyInt(0)>>)>>, <<"y", PyList(<<PyInt(0)>>)>> >>

====
